---- MODULE Spec2Model ----
(***************************************************************************)
(* Model of the authentication service of ai-education-platform:           *)
(* AuthService.login / AuthService.register over the user store, with the  *)
(* BaseService readiness flags and the Result type.  The User class and    *)
(* the user repository are not among the sources; they are modelled from   *)
(* the specification of the repository.                                    *)
(*                                                                         *)
(* Every handler is cut at its awaits on the store: the synchronous code   *)
(* before an await and the store call it issues form one action.           *)
(***************************************************************************)
EXTENDS Integers, Sequences, FiniteSets, TLC

(* ------------------------------ bounds --------------------------------- *)

\* number of request handlers that may overlap
NumProcs == 2
\* number of login calls that reach the store in one behaviour
MaxLogins == 3
\* number of register calls that reach the store in one behaviour
MaxRegisters == 2
\* number of unlocks in one behaviour
MaxUnlocks == 1
\* number of store calls that fail (by failure Result or by exception)
MaxFaults == 1
\* number of refreshToken / verifyToken / changePassword calls that get past
\* validateReady in one behaviour
MaxSessionCalls == 2
\* number of times the clock is moved between calls in one behaviour
MaxTicks == 2
\* length up to which the candidate passwords are enumerated in full
MaxCoreLen == 2
\* calls made in one behaviour when handlers overlap or the store may fail
MaxCalls == 3
\* audit entries appended to one entity
MaxMutations == 3
\* largest payload a Result is mapped from
MaxPayload == 3
\* initialize() and shutdown() calls made on one service
MaxLifeCalls == 4

(* ------------------------- program constants --------------------------- *)

\* the lockout threshold of the failed-login counter
LockThreshold == 5
\* AuthService.saltRounds
saltRounds == 12
\* validatePassword: minimum length
MinPasswordLength == 8
\* validateRegistrationRequest: minimum trimmed length of a name
MinNameLength == 2
\* LoginResponse.expiresIn = 15 * 60, accessTokenExpiry = '15m'
AccessExpirySeconds == 900
\* refreshTokenExpiry = '7d', in seconds
RefreshExpirySeconds == 604800

Procs == 1..NumProcs

Min(a, b) == IF a <= b THEN a ELSE b

(* ------------------------------ values --------------------------------- *)

\* strings are sequences of characters, so that the regular expressions and
\* the length tests of the validators are computed and not assumed
EmailA == <<"a", "@", "x", ".", "i", "o">>
EmailB == <<"b", "@", "x", ".", "i", "o">>
EmailC == <<"c", "@", "x", ".", "i", "o">>
EmailBad == <<"a", "@", "x">>

PwdGood == <<"A", "b", "c", "d", "e", "f", "1", "2">>
PwdOther == <<"X", "y", "z", "9", "8", "7", "6", "5">>
PwdWeak == <<"a", "b", "c">>
\* every class of character, one character short
PwdSeven == <<"A", "b", "c", "d", "e", "f", "1">>

NameOk == <<"A", "l">>
NameShort == <<"A", " ">>

UpperChars == {"A", "X", "T", "S", "P"}
LowerChars == {"a", "b", "c", "d", "e", "f", "i", "o", "x", "y", "z", "l"}
DigitChars == {"1", "2", "5", "6", "7", "8", "9"}
SpaceChars == {" "}

\* the value of an absent optional: undefined / null
Absent == [absent |-> TRUE]

(* ------------------------------ Result --------------------------------- *)

\* Result.success(data)
Success(data) ==
    [isSuccess |-> TRUE, data |-> data, error |-> <<>>, errorDetails |-> Absent,
     thrown |-> FALSE]

\* Result.failure(errors.join(', ')) with errorDetails left undefined; the
\* message is kept as the list of its comma-separated parts
FailureJoined(errors) ==
    [isSuccess |-> FALSE, data |-> Absent, error |-> errors, errorDetails |-> Absent,
     thrown |-> FALSE]

\* Result.failure(error) with errorDetails left undefined
Failure(error) == FailureJoined(<<error>>)

\* a call that ends by raising an Error instead of returning a Result
Thrown(message) ==
    [isSuccess |-> FALSE, data |-> Absent, error |-> <<message>>,
     errorDetails |-> Absent, thrown |-> TRUE]

(* --------------------------- bcrypt, tokens ---------------------------- *)

\* bcrypt.hash(password, rounds); the random salt is left out
BcryptHash(password, rounds) == [alg |-> "bcrypt", rounds |-> rounds, pwd |-> password]

\* bcrypt.compare(password, hash): false for anything that is no bcrypt hash
BcryptCompare(password, hash) ==
    /\ "alg" \in DOMAIN hash
    /\ hash.alg = "bcrypt"
    /\ hash.pwd = password

(* ------------------------------- User ---------------------------------- *)

\* User.isLocked: derived from the failed-login counter
isLocked(user) == user.failedLoginAttempts >= LockThreshold

\* User.canLogin(): active, verified and unlocked
canLogin(user) == user.isActive /\ user.isVerified /\ ~isLocked(user)

\* BaseEntity.updateMetadata(updatedBy): the time stamp moves, the actor is
\* recorded when one is given (actors are ids; 0 stands for the empty id)
updateMetadata(entity, updatedBy, time) ==
    [entity EXCEPT !.updatedAt = time,
                   !.updatedBy = IF updatedBy # 0 THEN updatedBy ELSE @]

\* the AuditEntry that addAuditEntry builds
AuditEntry(userId, action, changes, time) ==
    [timestamp |-> time, userId |-> userId, action |-> action,
     changes |-> changes, metadata |-> Absent]

\* AuditableEntity.addAuditEntry: push the entry, version += 1, updateMetadata
addAuditEntry(entity, userId, action, changes, time) ==
    updateMetadata(
        [entity EXCEPT
            !.auditLog = Append(@, AuditEntry(userId, action, changes, time)),
            !.version = @ + 1],
        userId, time)

\* User.recordFailedLogin(): one more consecutive failure, audited
recordFailedLogin(user, time) ==
    addAuditEntry(
        [user EXCEPT !.failedLoginAttempts = @ + 1],
        user.id, "UPDATE",
        [failedLoginAttempts |->
            [from |-> user.failedLoginAttempts,
             to |-> user.failedLoginAttempts + 1]],
        time)

\* User.recordSuccessfulLogin(): counter back to 0, login time recorded, audited
recordSuccessfulLogin(user, time) ==
    addAuditEntry(
        [user EXCEPT !.failedLoginAttempts = 0, !.lastLoginAt = time],
        user.id, "UPDATE",
        [failedLoginAttempts |-> [from |-> user.failedLoginAttempts, to |-> 0],
         lastLoginAt |-> [from |-> user.lastLoginAt, to |-> time]],
        time)

\* User.resetPassword(newPasswordHash, actor): the credential is replaced,
\* audited under the actor
resetPassword(user, newPasswordHash, userId, time) ==
    addAuditEntry(
        [user EXCEPT !.passwordHash = newPasswordHash],
        userId, "UPDATE",
        [passwordHash |-> [from |-> user.passwordHash, to |-> newPasswordHash]],
        time)

\* new TeacherUser / StudentUser / AdminUser (data): a fresh, eligible user,
\* version 1 and an empty audit log (AuditableEntity constructor)
NewUser(id, data, role) ==
    [id |-> id, email |-> data.email, passwordHash |-> data.passwordHash,
     role |-> role, schoolId |-> data.schoolId,
     isActive |-> TRUE, isVerified |-> TRUE,
     failedLoginAttempts |-> 0, lastLoginAt |-> 0,
     updatedAt |-> 0, updatedBy |-> 0, version |-> 1, auditLog |-> <<>>]

(* ------------------------------ requests ------------------------------- *)

\* String.prototype.toUpperCase on the role strings of the requests
ToUpperCase(s) ==
    CASE s = "teacher" -> "TEACHER"
      [] s = "student" -> "STUDENT"
      [] OTHER -> s

\* String.prototype.trim: leading and trailing white space removed
RECURSIVE TrimLeft(_)
TrimLeft(s) ==
    IF s # <<>> /\ Head(s) \in SpaceChars THEN TrimLeft(Tail(s)) ELSE s

RECURSIVE TrimRight(_)
TrimRight(s) ==
    IF s # <<>> /\ s[Len(s)] \in SpaceChars
    THEN TrimRight(SubSeq(s, 1, Len(s) - 1))
    ELSE s

Trim(s) == TrimRight(TrimLeft(s))

\* the object literal { email, passwordHash, ..., ...request.additionalData }:
\* a key of additionalData replaces the key written before the spread
SpreadOver(base, additionalData) ==
    [k \in DOMAIN base |->
        IF additionalData # Absent /\ k \in DOMAIN additionalData
        THEN additionalData[k]
        ELSE base[k]]

\* a well-formed request for an email nobody holds yet
RequestB ==
    [email |-> EmailB, password |-> PwdGood, firstName |-> NameOk,
     lastName |-> NameOk, role |-> "teacher", schoolId |-> Absent,
     additionalData |-> Absent]

\* the requests the callers make: a new email, the email of the user the
\* store already holds, additionalData that carries an email key of its
\* own, and a request no validator accepts
RegisterRequests ==
    { RequestB,
      [RequestB EXCEPT !.email = EmailA],
      [RequestB EXCEPT !.additionalData = [email |-> EmailC]],
      [RequestB EXCEPT !.email = EmailBad, !.password = PwdWeak,
                       !.firstName = NameShort, !.role = "PARENT"] }

\* the logins the callers make: the right and a wrong password for the user
\* the store holds, and the password RequestB registers with
LoginRequests ==
    { [email |-> EmailA, password |-> PwdGood],
      [email |-> EmailA, password |-> PwdOther],
      [email |-> EmailB, password |-> PwdGood] }

NoRequest == [none |-> TRUE]

\* candidate passwords: every string of at most MaxCoreLen characters over an
\* uppercase letter, a lowercase letter, a digit and a character of no
\* class, as it stands and padded with "-" to one below, exactly at and one
\* above the minimum length
PolicyChars == {"A", "b", "1", "-"}

Cores == UNION {[1..n -> PolicyChars] : n \in 0..MaxCoreLen}

Pad(core, n) == core \o [i \in 1..(n - Len(core)) |-> "-"]

CandidatePasswords ==
    Cores
    \cup {Pad(c, n) : c \in Cores,
                      n \in {MinPasswordLength - 1, MinPasswordLength,
                             MinPasswordLength + 1}}
    \cup {PwdGood, PwdOther, PwdWeak, PwdSeven}

\* role strings a caller may send
RoleInputs ==
    {"teacher", "TEACHER", "STUDENT", "ADMIN", "SCHOOL_ADMIN", "PARENT", "SUPPORT",
     "GUEST", ""}

\* register calls that vary the password (for the email the store holds, so
\* that only RequestB itself creates a user) and calls that vary the role
PolicyRequests ==
    {[RequestB EXCEPT !.email = EmailA, !.password = pw] : pw \in CandidatePasswords}
    \cup {[RequestB EXCEPT !.role = r] : r \in RoleInputs}

\* changePassword calls of the user the store holds, with the current
\* password right and wrong
ChangeRequests ==
    {[userId |-> 1, currentPassword |-> PwdGood, newPassword |-> pw] :
        pw \in CandidatePasswords}
    \cup {[userId |-> 1, currentPassword |-> PwdOther, newPassword |-> PwdOther],
          [userId |-> 2, currentPassword |-> PwdGood, newPassword |-> PwdOther]}

(* ----------------------------- validation ------------------------------ *)

\* isValidEmail: /^[^\s@]+@[^\s@]+\.[^\s@]+$/
Plain(s, i, j) ==
    /\ i <= j
    /\ \A k \in i..j : s[k] \notin SpaceChars /\ s[k] # "@"

isValidEmail(email) ==
    \E at \in 1..Len(email) : \E dot \in 1..Len(email) :
        /\ email[at] = "@"
        /\ email[dot] = "."
        /\ at < dot
        /\ Plain(email, 1, at - 1)
        /\ Plain(email, at + 1, dot - 1)
        /\ Plain(email, dot + 1, Len(email))

\* the password rules without the digit rule
validatePassword_NoDigit(password) ==
    IF Len(password) < MinPasswordLength
    THEN Failure("Password must be at least 8 characters long")
    ELSE IF ~ \E i \in 1..Len(password) : password[i] \in UpperChars
    THEN Failure("Password must contain at least one uppercase letter")
    ELSE IF ~ \E i \in 1..Len(password) : password[i] \in LowerChars
    THEN Failure("Password must contain at least one lowercase letter")
    ELSE Success([value |-> TRUE])

\* validatePassword: the first rule that fails, or success
validatePassword(password) ==
    IF Len(password) < MinPasswordLength
    THEN Failure("Password must be at least 8 characters long")
    ELSE IF ~ \E i \in 1..Len(password) : password[i] \in UpperChars
    THEN Failure("Password must contain at least one uppercase letter")
    ELSE IF ~ \E i \in 1..Len(password) : password[i] \in LowerChars
    THEN Failure("Password must contain at least one lowercase letter")
    ELSE IF ~ \E i \in 1..Len(password) : password[i] \in DigitChars
    THEN Failure("Password must contain at least one number")
    ELSE Success([value |-> TRUE])

ValidRoles == {"TEACHER", "STUDENT", "ADMIN", "SCHOOL_ADMIN"}

\* validateRegistrationRequest: the list of errors, joined
RegistrationErrors(request) ==
    (IF request.email = <<>> \/ ~isValidEmail(request.email)
     THEN <<"Valid email is required">> ELSE <<>>)
    \o (IF request.password = <<>>
        THEN <<"Password is required">>
        ELSE IF ~validatePassword(request.password).isSuccess
             THEN validatePassword(request.password).error
             ELSE <<>>)
    \o (IF request.firstName = <<>> \/ Len(Trim(request.firstName)) < MinNameLength
        THEN <<"First name must be at least 2 characters">> ELSE <<>>)
    \o (IF request.lastName = <<>> \/ Len(Trim(request.lastName)) < MinNameLength
        THEN <<"Last name must be at least 2 characters">> ELSE <<>>)
    \o (IF request.role = "" \/ ToUpperCase(request.role) \notin ValidRoles
        THEN <<"Valid role is required">> ELSE <<>>)

validateRegistrationRequest(request) ==
    IF Len(RegistrationErrors(request)) > 0
    THEN FailureJoined(RegistrationErrors(request))
    ELSE Success([value |-> TRUE])

(* ------------------------------ the store ------------------------------ *)

\* IUserRepository.findByEmail: the record with that email, or absent
findByEmail(store, email) ==
    IF \E id \in DOMAIN store : store[id].email = email
    THEN store[CHOOSE id \in DOMAIN store : store[id].email = email]
    ELSE Absent

\* IUserRepository.findById: the record stored under the id, or absent
findById(store, id) == IF id \in DOMAIN store THEN store[id] ELSE Absent

\* IUserRepository.create: the uniqueness constraint on email
EmailTaken(store, user) == \E id \in DOMAIN store : store[id].email = user.email

\* IUserRepository.create: the record is stored under its id
create(store, user) == store @@ (user.id :> user)

\* IUserRepository.update(id, user): the record is replaced by the object given
update(store, id, user) == [store EXCEPT ![id] = user]

\* what a store call may do: answer, return a failure Result, or throw
StoreOutcomes == {"ok", "fail", "throw"}

(* ------------------------------- state --------------------------------- *)

VARIABLES
    isInitialized,   \* BaseService.isInitialized
    isShuttingDown,  \* BaseService.isShuttingDown
    users,           \* the user store: id -> persisted record
    nextId,          \* the ids handed out so far (uuidv4 never repeats)
    pc,              \* where each handler stands
    op,              \* the operation each handler runs
    req,             \* its request, once validateReady has let the call in
    user,            \* its in-memory User object
    found,           \* the record as findByEmail returned it
    resp,            \* what the call returned
    branch,          \* the return statement the call left by
    wrote,           \* what the store did with the call's update / create
    logins,          \* login calls that reached the store so far
    registers,       \* register calls that reached the store so far
    unlocks,         \* unlocks so far
    faults,          \* store calls that failed so far
    attempts,        \* id -> wrong-password logins completed since the last reset
    everReset,       \* id -> the counter was reset by a login or an unlock
    lockSeen,        \* id -> the store held the record locked, and no unlock since
    lastReg,         \* the request of the register call that just succeeded
    after,           \* per handler: the successful register it directly follows
    regSuccess,      \* request email -> register calls that returned success
    jwtSecret,       \* AuthService.jwtSecret
    jwtRefreshSecret,\* AuthService.jwtRefreshSecret
    elapsed,         \* seconds that passed between the calls
    held,            \* the tokens a client keeps from a response
    accepted,        \* the refresh tokens refreshToken has answered with success
    sessionCalls,    \* refreshToken / verifyToken / changePassword calls let in
    ticks,           \* times the clock was moved between calls
    dependencies,    \* BaseService.dependencies: the names, in insertion order
    report,          \* what the last health() returned
    entity,          \* an AuditableEntity
    created,         \* that entity as its constructor left it
    mutations,       \* audit entries appended to it since it was constructed
    theResult,       \* a Result object
    out,             \* the last operation on it and what that gave
    life,            \* per caller: the await its initialize() / shutdown() is at
    doInitializeRuns,\* times initialize() entered doInitialize
    doShutdownRuns,  \* times shutdown() entered doShutdown
    lifeCalls,       \* initialize() and shutdown() calls made so far
    lastCall         \* the last call made on the entity, with its arguments

vars == <<isInitialized, isShuttingDown, users, nextId, pc, op, req, user, found,
          resp, branch, wrote, logins, registers, unlocks, faults, attempts,
          everReset, lockSeen, lastReg, after, regSuccess, jwtSecret,
          jwtRefreshSecret, elapsed, held, accepted, sessionCalls, ticks,
          dependencies, report, entity, created, mutations, theResult, out,
          life, doInitializeRuns, doShutdownRuns, lifeCalls,
          lastCall>>

service == <<isInitialized, isShuttingDown>>
calls == <<logins, registers, unlocks>>
keys == <<jwtSecret, jwtRefreshSecret>>
session == <<elapsed, held, accepted, sessionCalls, ticks>>
library == <<entity, created, mutations, theResult, out, lastCall>>
lifecycle == <<life, doInitializeRuns, doShutdownRuns, lifeCalls>>
apart == <<report, library, lifecycle>>

\* Date.now() in seconds: a second passes with every login that reaches the
\* store, and `elapsed` seconds pass between the calls
Now == logins + elapsed

(* ------------------------------- tokens -------------------------------- *)

\* jwt.sign(payload, secret, { expiresIn }): iat and exp are added to the
\* payload; the signature is the key it was made with
JwtSign(payload, secret, expiresIn, time) ==
    [malformed |-> FALSE,
     payload |-> payload @@ [iat |-> time, exp |-> time + expiresIn],
     key |-> secret]

\* an error raised by jwt.verify
JwtError(name, message) ==
    [ok |-> FALSE, name |-> name, message |-> message, payload |-> Absent]

\* an instanceof test that TokenExpiredError does not pass
JsonWebTokenErrors_NoExpired == {"JsonWebTokenError", "NotBeforeError"}

\* error instanceof jwt.JsonWebTokenError: TokenExpiredError and
\* NotBeforeError are subclasses of JsonWebTokenError
JsonWebTokenErrors == {"JsonWebTokenError", "TokenExpiredError", "NotBeforeError"}

\* a verification that still accepts a token at its expiry instant
JwtVerify_Late(token, secret, time) ==
    IF token.malformed
    THEN JwtError("JsonWebTokenError", "jwt malformed")
    ELSE IF token.key # secret
    THEN JwtError("JsonWebTokenError", "invalid signature")
    ELSE IF time > token.payload.exp
    THEN JwtError("TokenExpiredError", "jwt expired")
    ELSE [ok |-> TRUE, payload |-> token.payload]

\* jwt.verify(token, secret): structure, then signature, then expiry
JwtVerify(token, secret, time) ==
    IF token.malformed
    THEN JwtError("JsonWebTokenError", "jwt malformed")
    ELSE IF token.key # secret
    THEN JwtError("JsonWebTokenError", "invalid signature")
    ELSE IF time >= token.payload.exp
    THEN JwtError("TokenExpiredError", "jwt expired")
    ELSE [ok |-> TRUE, payload |-> token.payload]

\* generateAccessToken: jwt.sign(payload, jwtSecret, 15m)
generateAccessToken(u, time) ==
    JwtSign([userId |-> u.id, email |-> u.email, role |-> u.role,
             schoolId |-> u.schoolId],
            jwtSecret, AccessExpirySeconds, time)

\* generateRefreshToken: jwt.sign(payload, jwtRefreshSecret, 7d)
generateRefreshToken(u, time) ==
    JwtSign([userId |-> u.id, email |-> u.email, role |-> u.role],
            jwtRefreshSecret, RefreshExpirySeconds, time)

NoTokens == [none |-> TRUE]

\* a string that is no JWT
MalformedToken == [malformed |-> TRUE, payload |-> Absent, key |-> "none"]

\* a well-formed token signed with a key the service does not hold
ForgedToken ==
    [malformed |-> FALSE,
     payload |-> [userId |-> 1, email |-> EmailA, role |-> "ADMIN",
                  iat |-> 0, exp |-> 2 * RefreshExpirySeconds],
     key |-> "other-secret"]

\* the two secrets a deployment may configure, also one for both
Keys == {"access-secret", "refresh-secret"}

\* how far the clock is moved between calls
ClockSteps == {1, AccessExpirySeconds - 1, RefreshExpirySeconds - 1}
locals == <<pc, op, req, user, found, resp, branch, wrote, after>>
history == <<attempts, everReset, lockSeen, lastReg, regSuccess>>

NoResponse == [none |-> TRUE]
Pass == [pass |-> TRUE]

\* BaseService.isReady
isReady == isInitialized /\ ~isShuttingDown

\* BaseService.validateReady: the Error it throws
NotReadyError == Thrown("Service AuthService is not ready")

\* a response is taken by its caller before any handler moves on: the state
\* in which a call has returned exists to observe the response
NoneDone == \A q \in Procs : pc[q] # "done"

\* a store call fails only while the fault budget lasts
FaultGuard(outcome) ==
    /\ outcome # "ok" => faults < MaxFaults
    /\ faults' = IF outcome = "ok" THEN faults ELSE faults + 1

\* the user the store holds before any call: registered with PwdGood,
\* switched on or off and verified or not by an administrator, and with
\* the consecutive wrong-password logins made so far counted
\* the record after n wrong-password logins, each one audited
RECURSIVE FailedLogins(_, _)
FailedLogins(u, n) ==
    IF n = 0 THEN u ELSE FailedLogins(recordFailedLogin(u, 0), n - 1)

InitialUser(active, verified, failed) ==
    FailedLogins(
        [id |-> 1, email |-> EmailA,
         passwordHash |-> BcryptHash(PwdGood, saltRounds),
         role |-> "TEACHER", schoolId |-> "school-1",
         isActive |-> active, isVerified |-> verified,
         failedLoginAttempts |-> 0, lastLoginAt |-> 0,
         updatedAt |-> 0, updatedBy |-> 0, version |-> 1, auditLog |-> <<>>],
        failed)

\* the users the store may hold at the start: a fresh account, an account
\* one failure short of the lock, and accounts an administrator has
\* switched off or that were never verified
InitialUsers ==
    { InitialUser(TRUE, TRUE, 0),
      InitialUser(TRUE, TRUE, LockThreshold - 1),
      InitialUser(FALSE, TRUE, 0),
      InitialUser(TRUE, FALSE, 0),
      InitialUser(FALSE, FALSE, 0) }

Ids == 1..(MaxRegisters + 1)
RequestEmails == {r.email : r \in RegisterRequests}

NoReport == [none |-> TRUE]
NoEntity == [none |-> TRUE]
NoResult == [none |-> TRUE]
NoOutcome == [none |-> TRUE]
NoCall == [none |-> TRUE]

\* Map.prototype.set(name, check) on the dependencies: a new name goes last,
\* a name already there keeps its place
addDependency(deps, name) ==
    IF \E i \in 1..Len(deps) : deps[i] = name THEN deps ELSE Append(deps, name)

\* new AuthService(userRepository, secret, refreshSecret) over a store that
\* holds one user
ConstructedService(secret, refreshSecret) ==
    /\ jwtSecret = secret
    /\ jwtRefreshSecret = refreshSecret
    /\ elapsed = 0
    /\ held = NoTokens
    /\ accepted = {}
    /\ sessionCalls = 0
    /\ ticks = 0
    /\ isInitialized = FALSE
    /\ isShuttingDown = FALSE
    /\ \E u \in InitialUsers :
           /\ users = (1 :> u)
           /\ attempts = [id \in Ids |-> IF id = 1 THEN u.failedLoginAttempts ELSE 0]
    /\ nextId = 2
    /\ pc = [p \in Procs |-> "idle"]
    /\ op = [p \in Procs |-> "none"]
    /\ req = [p \in Procs |-> NoRequest]
    /\ user = [p \in Procs |-> Absent]
    /\ found = [p \in Procs |-> Absent]
    /\ resp = [p \in Procs |-> NoResponse]
    /\ branch = [p \in Procs |-> "none"]
    /\ wrote = [p \in Procs |-> "none"]
    /\ logins = 0
    /\ registers = 0
    /\ unlocks = 0
    /\ faults = 0
    /\ everReset = [id \in Ids |-> FALSE]
    /\ lockSeen = [id \in Ids |-> FALSE]
    /\ lastReg = NoRequest
    /\ after = [p \in Procs |-> NoRequest]
    /\ regSuccess = [e \in RequestEmails |-> 0]
    /\ dependencies = <<>>
    /\ report = NoReport
    /\ life = [c \in Procs |-> "idle"]
    /\ doInitializeRuns = 0
    /\ doShutdownRuns = 0
    /\ lifeCalls = 0

\* the service alone: no entity and no Result object under study
Constructed(secret, refreshSecret) ==
    /\ ConstructedService(secret, refreshSecret)
    /\ entity = NoEntity
    /\ created = NoEntity
    /\ mutations = 0
    /\ theResult = NoResult
    /\ out = NoOutcome
    /\ lastCall = NoCall

\* the service built with two different secrets
Init == Constructed("access-secret", "refresh-secret")

(* ------------------------------ lifecycle ------------------------------ *)

\* BaseService.initialize
Initialize ==
    /\ NoneDone
    /\ ~isInitialized
    /\ dependencies' = addDependency(dependencies, "UserRepository")
    /\ isInitialized' = TRUE
    /\ lastReg' = NoRequest
    /\ UNCHANGED <<keys, apart, session>>
    /\ UNCHANGED <<isShuttingDown, users, nextId, locals, calls, faults,
                   attempts, everReset, lockSeen, regSuccess>>

\* BaseService.shutdown
Shutdown ==
    /\ NoneDone
    /\ ~isShuttingDown
    /\ isShuttingDown' = TRUE
    /\ isInitialized' = FALSE
    /\ lastReg' = NoRequest
    /\ UNCHANGED <<keys, apart, dependencies, session>>
    /\ UNCHANGED <<users, nextId, locals, calls, faults,
                   attempts, everReset, lockSeen, regSuccess>>

\* the frame of the steps of initialize() and shutdown()
LifeFrame ==
    /\ UNCHANGED <<keys, report, library, session>>
    /\ UNCHANGED <<users, nextId, locals, calls, faults, history>>

\* BaseService.initialize, from the call to the await on doInitialize: the
\* guard, then the body of AuthService.doInitialize, which has no await
InitializeCall(c) ==
    /\ life[c] = "idle"
    /\ lifeCalls < MaxLifeCalls
    /\ lifeCalls' = lifeCalls + 1
    /\ IF isInitialized
       THEN UNCHANGED <<dependencies, doInitializeRuns, life>>
       ELSE /\ dependencies' = addDependency(dependencies, "UserRepository")
            /\ doInitializeRuns' = doInitializeRuns + 1
            /\ life' = [life EXCEPT ![c] = "doInitialize"]
    /\ UNCHANGED <<service, doShutdownRuns>>
    /\ LifeFrame

\* BaseService.initialize, after the await
InitializeResume(c) ==
    /\ life[c] = "doInitialize"
    /\ isInitialized' = TRUE
    /\ life' = [life EXCEPT ![c] = "idle"]
    /\ UNCHANGED <<isShuttingDown, dependencies, doInitializeRuns, doShutdownRuns,
                   lifeCalls>>
    /\ LifeFrame

\* BaseService.shutdown, from the call to the await on doShutdown: the
\* guard, the flag, then the body of AuthService.doShutdown
ShutdownCall(c) ==
    /\ life[c] = "idle"
    /\ lifeCalls < MaxLifeCalls
    /\ lifeCalls' = lifeCalls + 1
    /\ IF isShuttingDown
       THEN UNCHANGED <<isShuttingDown, life, doShutdownRuns>>
       ELSE /\ isShuttingDown' = TRUE
            /\ doShutdownRuns' = doShutdownRuns + 1
            /\ life' = [life EXCEPT ![c] = "doShutdown"]
    /\ UNCHANGED <<isInitialized, dependencies, doInitializeRuns>>
    /\ LifeFrame

\* BaseService.shutdown, after the await
ShutdownResume(c) ==
    /\ life[c] = "doShutdown"
    /\ isInitialized' = FALSE
    /\ life' = [life EXCEPT ![c] = "idle"]
    /\ UNCHANGED <<isShuttingDown, dependencies, doInitializeRuns, doShutdownRuns,
                   lifeCalls>>
    /\ LifeFrame

(* --------------------------- AuditableEntity --------------------------- *)

\* the constructors of BaseEntity and AuditableEntity for a concrete entity
\* with one field of its own, title: data.version || 1, data.auditLog || []
NewEntity(data, time) ==
    [id |-> IF "id" \in DOMAIN data THEN data.id ELSE 1,
     createdAt |-> time,
     updatedAt |-> time,
     createdBy |-> 0,
     updatedBy |-> 0,
     version |-> IF "version" \in DOMAIN data /\ data.version # 0
                 THEN data.version ELSE 1,
     auditLog |-> IF "auditLog" \in DOMAIN data THEN data.auditLog ELSE <<>>,
     title |-> "a"]

\* auditUpdate: the keys of the updates that are own properties of the entity
\* and whose value differs (!==); an array handed in is never the array held
Changes(e, updates) ==
    LET changed == {key \in DOMAIN updates \cap DOMAIN e :
                        key = "auditLog" \/ e[key] # updates[key]}
    IN  [key \in changed |-> [from |-> e[key], to |-> updates[key]]]

\* AuditableEntity.auditUpdate: assign what changed, then one audit entry for
\* all of it; nothing at all when nothing changed
auditUpdate(e, updates, userId, time) ==
    LET changes == Changes(e, updates)
        assigned == [key \in DOMAIN e |->
                        IF key \in DOMAIN changes THEN updates[key] ELSE e[key]]
    IN  IF DOMAIN changes # {}
        THEN addAuditEntry(assigned, userId, "UPDATE", changes, time)
        ELSE e

\* the data entities are constructed from: none, and a record loaded at
\* version 3 with the two entries that brought it there
LoadedLog ==
    <<AuditEntry(2, "UPDATE", [title |-> [from |-> "b", to |-> "c"]], 0),
      AuditEntry(2, "UPDATE", [title |-> [from |-> "c", to |-> "a"]], 0)>>

EntityData == {[none |-> TRUE], [id |-> 5, version |-> 3, auditLog |-> LoadedLog]}

\* the updates handed to auditUpdate: fields of the entity, a key it does not
\* have, its version and its audit log
EntityUpdates ==
    {[title |-> "a"], [title |-> "b"], [title |-> "b", colour |-> "red"],
     [version |-> 1], [version |-> 5], [auditLog |-> <<>>]}

Actors == {0, 2}

\* a method of the entity calls addAuditEntry
AddAuditEntry(userId, action) ==
    /\ entity # NoEntity
    /\ mutations < MaxMutations
    /\ entity' = addAuditEntry(entity, userId, action, [none |-> TRUE], Now)
    /\ mutations' = mutations + 1
    /\ lastCall' = [method |-> "addAuditEntry", userId |-> userId, action |-> action]
    /\ UNCHANGED <<keys, report, dependencies, session, created, theResult, out>>
    /\ UNCHANGED <<service, users, nextId, locals, calls, faults, history, lifecycle>>

\* a method of the entity calls auditUpdate
AuditUpdate(updates, userId) ==
    /\ entity # NoEntity
    /\ mutations < MaxMutations
    /\ entity' = auditUpdate(entity, updates, userId, Now)
    /\ mutations' = IF DOMAIN Changes(entity, updates) # {}
                    THEN mutations + 1 ELSE mutations
    /\ lastCall' = [method |-> "auditUpdate", updates |-> updates, userId |-> userId]
    /\ UNCHANGED <<keys, report, dependencies, session, created, theResult, out>>
    /\ UNCHANGED <<service, users, nextId, locals, calls, faults, history, lifecycle>>

(* -------------------------------- Result ------------------------------- *)

\* a failure built with the flag of a success
FailureWith_Success(error, errorDetails) ==
    [isSuccess |-> TRUE, data |-> Absent, error |-> <<error>>,
     errorDetails |-> errorDetails, thrown |-> FALSE]

\* Result.failure(error, errorDetails)
FailureWith(error, errorDetails) ==
    [isSuccess |-> FALSE, data |-> Absent, error |-> <<error>>,
     errorDetails |-> errorDetails, thrown |-> FALSE]

\* what a getter, a method or a function handed in gives: a value, or an
\* Error raised
Returned(value) == [raised |-> FALSE, value |-> value]
Raised(message) == [raised |-> TRUE, message |-> message]

\* get isSuccess / get isFailure
isSuccess(r) == r.isSuccess
isFailure(r) == ~r.isSuccess

\* a data getter that does not look at the flag
dataOf_Unchecked(r) == Returned(r.data)

\* get data: raises on a failure
dataOf(r) ==
    IF ~r.isSuccess
    THEN Raised("Cannot access data from a failed result")
    ELSE Returned(r.data)

\* get error: raises on a success
errorOf(r) ==
    IF r.isSuccess
    THEN Raised("Cannot access error from a successful result")
    ELSE Returned(r.error[1])

\* get errorDetails
errorDetailsOf(r) == r.errorDetails

\* the functions handed to map: two that return and one that throws
MapFns == {"inc", "zero", "throws"}

ApplyMap(fn, x) ==
    CASE fn = "inc" -> Returned(x + 1)
      [] fn = "zero" -> Returned(0)
      [] OTHER -> Raised("boom")

\* the functions handed to flatMap: to a success, to a failure with details,
\* and one that throws
FlatFns == {"wrap", "reject", "throws"}

ApplyFlat(fn, x) ==
    CASE fn = "wrap" -> Returned(Success(x + 1))
      [] fn = "reject" -> Returned(FailureWith("rejected", [code |-> x]))
      [] OTHER -> Raised("boom")

\* the template literal `Mapping failed: ${error}` for the Error thrown
MappingFailed(message) ==
    IF message = "boom" THEN "Mapping failed: Error: boom" ELSE "Mapping failed"

\* one call of a function handed in
Call(fn, arg) == [fn |-> fn, arg |-> arg]

\* a map that forgets the details of the failure it passes on
map_DropsDetails(r, fn) ==
    IF r.isSuccess
    THEN [gave |-> IF ApplyMap(fn, r.data).raised
                   THEN Returned(FailureWith(
                            MappingFailed(ApplyMap(fn, r.data).message), Absent))
                   ELSE Returned(Success(ApplyMap(fn, r.data).value)),
          called |-> <<Call(fn, r.data)>>]
    ELSE [gave |-> Returned(FailureWith(r.error[1], Absent)), called |-> <<>>]

\* Result.map: what it gives and the calls it makes
map(r, fn) ==
    IF r.isSuccess
    THEN [gave |-> IF ApplyMap(fn, r.data).raised
                   THEN Returned(FailureWith(
                            MappingFailed(ApplyMap(fn, r.data).message), Absent))
                   ELSE Returned(Success(ApplyMap(fn, r.data).value)),
          called |-> <<Call(fn, r.data)>>]
    ELSE [gave |-> Returned(FailureWith(r.error[1], r.errorDetails)),
          called |-> <<>>]

\* Result.flatMap: no try block, what fn throws leaves flatMap
flatMap(r, fn) ==
    IF r.isSuccess
    THEN [gave |-> ApplyFlat(fn, r.data), called |-> <<Call(fn, r.data)>>]
    ELSE [gave |-> Returned(FailureWith(r.error[1], r.errorDetails)),
          called |-> <<>>]

\* Result.match with two handlers that return what they were called with
match(r) ==
    IF r.isSuccess
    THEN [gave |-> Returned([data |-> r.data]),
          called |-> <<Call("onSuccess", r.data)>>]
    ELSE [gave |-> Returned([error |-> r.error[1], details |-> r.errorDetails]),
          called |-> <<Call("onFailure", r.error[1])>>]

\* Result.unwrapOr
unwrapOr(r, defaultValue) ==
    [gave |-> Returned(IF r.isSuccess THEN r.data ELSE defaultValue),
     called |-> <<>>]

\* Result.unwrapOrThrow
unwrapOrThrow(r) ==
    [gave |-> IF r.isSuccess THEN Returned(r.data) ELSE Raised(r.error[1]),
     called |-> <<>>]

Payloads == 0..MaxPayload
Messages == {"not found", ""}
Details == {Absent, [field |-> "email"]}

\* the outcome of one operation: its name and arguments, the Result it was
\* applied to, what it gave and the functions it called
Outcome(name, args, r, did) ==
    [op |-> name, args |-> args, on |-> r, gave |-> did.gave, called |-> did.called]

ResultFrame ==
    /\ UNCHANGED <<keys, report, dependencies, session, entity, created, mutations,
                   lastCall>>
    /\ UNCHANGED <<service, users, nextId, locals, calls, faults, history, lifecycle>>

\* Result.success(data)
MakeSuccess(d) ==
    /\ theResult' = Success(d)
    /\ out' = Outcome("success", [data |-> d], NoResult,
                      [gave |-> Returned(Success(d)), called |-> <<>>])
    /\ ResultFrame

\* Result.failure(error, errorDetails)
MakeFailure(e, details) ==
    /\ theResult' = FailureWith(e, details)
    /\ out' = Outcome("failure", [error |-> e, details |-> details], NoResult,
                      [gave |-> Returned(FailureWith(e, details)), called |-> <<>>])
    /\ ResultFrame

\* result.data
ReadData ==
    /\ theResult # NoResult
    /\ out' = Outcome("data", Absent, theResult,
                      [gave |-> dataOf(theResult), called |-> <<>>])
    /\ UNCHANGED theResult
    /\ ResultFrame

\* result.error
ReadError ==
    /\ theResult # NoResult
    /\ out' = Outcome("error", Absent, theResult,
                      [gave |-> errorOf(theResult), called |-> <<>>])
    /\ UNCHANGED theResult
    /\ ResultFrame

\* whether the payload may still be mapped
Mappable == theResult # NoResult /\ (theResult.isSuccess => theResult.data < MaxPayload)

\* result = result.map(fn)
Map(fn) ==
    /\ Mappable
    /\ out' = Outcome("map", [fn |-> fn], theResult, map(theResult, fn))
    /\ theResult' = map(theResult, fn).gave.value
    /\ ResultFrame

\* result = result.flatMap(fn); when fn throws nothing is assigned
FlatMap(fn) ==
    /\ Mappable
    /\ out' = Outcome("flatMap", [fn |-> fn], theResult, flatMap(theResult, fn))
    /\ theResult' = IF flatMap(theResult, fn).gave.raised
                    THEN theResult
                    ELSE flatMap(theResult, fn).gave.value
    /\ ResultFrame

\* result.match(onSuccess, onFailure)
Match ==
    /\ theResult # NoResult
    /\ out' = Outcome("match", Absent, theResult, match(theResult))
    /\ UNCHANGED theResult
    /\ ResultFrame

\* result.unwrapOr(defaultValue)
UnwrapOr(defaultValue) ==
    /\ theResult # NoResult
    /\ out' = Outcome("unwrapOr", [defaultValue |-> defaultValue], theResult,
                      unwrapOr(theResult, defaultValue))
    /\ UNCHANGED theResult
    /\ ResultFrame

\* result.unwrapOrThrow()
UnwrapOrThrow ==
    /\ theResult # NoResult
    /\ out' = Outcome("unwrapOrThrow", Absent, theResult, unwrapOrThrow(theResult))
    /\ UNCHANGED theResult
    /\ ResultFrame

(* ------------------------------- health -------------------------------- *)

\* the health check doInitialize registers for the store: HEALTHY unless
\* userRepository.count() throws; the Result count resolves to is not read
UserRepositoryCheck(outcome) ==
    [name |-> "UserRepository",
     status |-> IF outcome = "throw" THEN "UNHEALTHY" ELSE "HEALTHY",
     lastChecked |-> Now]

\* AuthService.checkServiceHealth: both secrets must be configured
checkServiceHealth ==
    IF jwtSecret = "" \/ jwtRefreshSecret = "" THEN "UNHEALTHY" ELSE "HEALTHY"

\* AuthService.getHealthMetadata
getHealthMetadata ==
    [jwtConfigured |-> jwtSecret # "", refreshTokenConfigured |-> jwtRefreshSecret # ""]

\* a health() loop in which the status seen last replaces the overall status
Overall_LastWins(overallStatus, status) ==
    IF status = "HEALTHY" THEN overallStatus ELSE status

\* BaseService.health: how one more status changes the overall status
Overall(overallStatus, status) ==
    IF status = "UNHEALTHY" THEN "UNHEALTHY"
    ELSE IF status = "DEGRADED" /\ overallStatus = "HEALTHY" THEN "DEGRADED"
    ELSE overallStatus

\* BaseService.health: the loop over the dependencies, in insertion order
RECURSIVE CheckDependencies(_, _, _)
CheckDependencies(deps, outcome, acc) ==
    IF deps = <<>>
    THEN acc
    ELSE LET depHealth == UserRepositoryCheck(outcome)
         IN  CheckDependencies(
                 Tail(deps), outcome,
                 [status |-> Overall(acc.status, depHealth.status),
                  dependencies |-> Append(acc.dependencies, depHealth)])

\* BaseService.health, while the store's count() behaves as the outcome says
ServiceHealth(outcome) ==
    LET checked == CheckDependencies(
                       dependencies, outcome,
                       [status |-> "HEALTHY", dependencies |-> <<>>])
    IN  [status |-> Overall(checked.status, checkServiceHealth),
         timestamp |-> Now,
         dependencies |-> checked.dependencies,
         metadata |-> getHealthMetadata,
         probe |-> outcome]

\* a call of health()
Health(outcome) ==
    /\ report' = ServiceHealth(outcome)
    /\ UNCHANGED <<keys, library, dependencies, session>>
    /\ UNCHANGED <<service, users, nextId, locals, calls, faults, history, lifecycle>>

\* the names dependencies are registered under
DependencyNames == {"UserRepository", "Cache", "Mailer"}

\* what a registered check, or checkServiceHealth of a subclass, may do when
\* it is awaited: resolve to one of the three statuses, or throw
CheckBehaviours == {"HEALTHY", "DEGRADED", "UNHEALTHY", "throw"}

\* the keys of the dependencies
Registered == {dependencies[i] : i \in 1..Len(dependencies)}

\* BaseService.addDependency
AddDependency(name) ==
    /\ dependencies' = addDependency(dependencies, name)
    /\ dependencies' # dependencies
    /\ UNCHANGED <<keys, apart, session>>
    /\ UNCHANGED <<service, users, nextId, locals, calls, faults, history>>

\* Map.prototype.delete(name) on the dependencies
removeDependency(deps, name) == SelectSeq(deps, LAMBDA n : n # name)

\* BaseService.removeDependency
RemoveDependency(name) ==
    /\ dependencies' = removeDependency(dependencies, name)
    /\ dependencies' # dependencies
    /\ UNCHANGED <<keys, apart, session>>
    /\ UNCHANGED <<service, users, nextId, locals, calls, faults, history>>

\* BaseService.health: one turn of the loop, for the dependency registered
\* as name, whose check resolves or throws as behaviour says
CheckOne(name, behaviour, acc) ==
    IF behaviour = "throw"
    THEN [status |-> "UNHEALTHY",
          dependencies |-> Append(acc.dependencies,
                                  [name |-> name, status |-> "UNHEALTHY",
                                   lastChecked |-> Now, error |-> "check failed"])]
    ELSE [status |-> Overall(acc.status, behaviour),
          dependencies |-> Append(acc.dependencies,
                                  [name |-> name, status |-> behaviour,
                                   lastChecked |-> Now, error |-> ""])]

\* BaseService.health: the loop over the dependencies, in insertion order
RECURSIVE CheckEach(_, _, _)
CheckEach(deps, checks, acc) ==
    IF deps = <<>>
    THEN acc
    ELSE CheckEach(Tail(deps), checks, CheckOne(Head(deps), checks[Head(deps)], acc))

\* BaseService.health: the service-specific check after the loop
CheckService(overallStatus, serviceCheck) ==
    IF serviceCheck = "throw" THEN "UNHEALTHY" ELSE Overall(overallStatus, serviceCheck)

\* BaseService.health of a service whose registered checks behave as checks
\* says and whose checkServiceHealth behaves as serviceCheck says
BaseHealth(checks, serviceCheck) ==
    LET checked == CheckEach(dependencies, checks,
                             [status |-> "HEALTHY", dependencies |-> <<>>])
    IN  [status |-> CheckService(checked.status, serviceCheck),
         timestamp |-> Now,
         dependencies |-> checked.dependencies,
         metadata |-> getHealthMetadata,
         probe |-> [checks |-> checks, serviceCheck |-> serviceCheck,
                    registered |-> dependencies]]

\* a call of health() on such a service
HealthOf(checks, serviceCheck) ==
    /\ report' = BaseHealth(checks, serviceCheck)
    /\ UNCHANGED <<keys, library, dependencies, session>>
    /\ UNCHANGED <<service, users, nextId, locals, calls, faults, history, lifecycle>>

(* -------------------------------- login -------------------------------- *)

\* login: the opaque failure of the not-found, wrong-password and catch paths
AuthenticationFailed == Failure("Authentication failed")

\* a wrong password answered with a message of its own
WrongPasswordResult_Distinct == Failure("Invalid password")

\* login: the return for a wrong password
WrongPasswordResult == Failure("Authentication failed")

\* an eligibility check that does not look at the lock
LoginEligibility_NeverLocked(u) ==
    IF ~u.isActive
    THEN [resp |-> Failure("Account is inactive"), branch |-> "inactive"]
    ELSE IF ~u.isVerified
    THEN [resp |-> Failure("Account is not verified"), branch |-> "unverified"]
    ELSE Pass

\* the eligibility check without its isVerified branch
LoginEligibility_NoVerifiedCheck(u) ==
    IF ~canLogin(u)
    THEN IF isLocked(u)
         THEN [resp |-> Failure("Account is locked due to multiple failed attempts"),
               branch |-> "locked"]
         ELSE IF ~u.isActive
         THEN [resp |-> Failure("Account is inactive"), branch |-> "inactive"]
         ELSE Pass
    ELSE Pass

\* login: "Check if user can login": the return it makes, or Pass
LoginEligibility(u) ==
    IF ~canLogin(u)
    THEN IF isLocked(u)
         THEN [resp |-> Failure("Account is locked due to multiple failed attempts"),
               branch |-> "locked"]
         ELSE IF ~u.isActive
         THEN [resp |-> Failure("Account is inactive"), branch |-> "inactive"]
         ELSE IF ~u.isVerified
         THEN [resp |-> Failure("Account is not verified"), branch |-> "unverified"]
         ELSE Pass
    ELSE Pass

\* a login that compares the password whatever the state of the account
LoginFindStep_NoEligibility(ready, outcome, u) ==
    IF ~ready
    THEN [pc |-> "done", resp |-> NotReadyError, branch |-> "not_ready"]
    ELSE IF outcome = "throw"
    THEN [pc |-> "done", resp |-> AuthenticationFailed, branch |-> "exception"]
    ELSE IF outcome = "fail"
    THEN [pc |-> "done", resp |-> AuthenticationFailed, branch |-> "find_failed"]
    ELSE IF u = Absent
    THEN [pc |-> "done", resp |-> AuthenticationFailed, branch |-> "not_found"]
    ELSE [pc |-> "login_verify", resp |-> NoResponse, branch |-> "none"]

\* login up to its await on bcrypt.compare: where it goes and what it returns
LoginFindStep(ready, outcome, u) ==
    IF ~ready
    THEN [pc |-> "done", resp |-> NotReadyError, branch |-> "not_ready"]
    ELSE IF outcome = "throw"
    THEN [pc |-> "done", resp |-> AuthenticationFailed, branch |-> "exception"]
    ELSE IF outcome = "fail"
    THEN [pc |-> "done", resp |-> AuthenticationFailed, branch |-> "find_failed"]
    ELSE IF u = Absent
    THEN [pc |-> "done", resp |-> AuthenticationFailed, branch |-> "not_found"]
    ELSE IF LoginEligibility(u) # Pass
    THEN [pc |-> "done", resp |-> LoginEligibility(u).resp,
          branch |-> LoginEligibility(u).branch]
    ELSE [pc |-> "login_verify", resp |-> NoResponse, branch |-> "none"]

\* the LoginResponse of a successful login
LoginResponse(u, time) ==
    [user |-> u,
     accessToken |-> generateAccessToken(u, time),
     refreshToken |-> generateRefreshToken(u, time),
     expiresIn |-> AccessExpirySeconds]

\* a catch block that lets the exception of the store through
AfterUpdate_Rethrow(outcome, result, resultBranch) ==
    IF outcome = "throw"
    THEN [resp |-> Thrown("store"), branch |-> "exception"]
    ELSE [resp |-> result, branch |-> resultBranch]

\* await this.userRepository.update(user.id, user): the Result it returns is
\* dropped; only an exception leaves the normal path, into the catch block
AfterUpdate(outcome, result, resultBranch) ==
    IF outcome = "throw"
    THEN [resp |-> AuthenticationFailed, branch |-> "exception"]
    ELSE [resp |-> result, branch |-> resultBranch]

\* a wrong password against a record that is active and verified
CountsAsAttempt(request, u) ==
    /\ u # Absent
    /\ u.isActive /\ u.isVerified
    /\ ~BcryptCompare(request.password, u.passwordHash)

\* login, from the call to the await on bcrypt.compare
LoginFind(p, request, outcome) ==
    /\ pc[p] = "idle"
    /\ NoneDone
    /\ isReady => logins < MaxLogins
    /\ logins' = IF isReady THEN logins + 1 ELSE logins
    /\ ~isReady => outcome = "ok"
    /\ FaultGuard(outcome)
    /\ LET u == findByEmail(users, request.email)
           step == LoginFindStep(isReady, outcome, u)
       IN  /\ pc' = [pc EXCEPT ![p] = step.pc]
           /\ resp' = [resp EXCEPT ![p] = step.resp]
           /\ branch' = [branch EXCEPT ![p] = step.branch]
           /\ user' = [user EXCEPT ![p] = IF step.pc = "done" THEN Absent ELSE u]
           /\ found' = [found EXCEPT ![p] = IF isReady /\ outcome = "ok" THEN u ELSE Absent]
           /\ attempts' = IF step.branch = "locked" /\ CountsAsAttempt(request, u)
                          THEN [attempts EXCEPT ![u.id] = @ + 1]
                          ELSE attempts
    /\ op' = [op EXCEPT ![p] = "login"]
    /\ req' = [req EXCEPT ![p] = IF isReady THEN request ELSE NoRequest]
    /\ wrote' = [wrote EXCEPT ![p] = "none"]
    /\ after' = [after EXCEPT ![p] = lastReg]
    /\ lastReg' = NoRequest
    /\ UNCHANGED <<keys, apart, dependencies, session>>
    /\ UNCHANGED <<service, users, nextId, registers, unlocks, everReset, lockSeen,
                   regSuccess>>

\* login, from bcrypt.compare to its return
LoginVerify(p, outcome) ==
    /\ pc[p] = "login_verify"
    /\ NoneDone
    /\ FaultGuard(outcome)
    /\ LET valid == BcryptCompare(req[p].password, user[p].passwordHash)
           u == IF valid
                THEN recordSuccessfulLogin(user[p], Now)
                ELSE recordFailedLogin(user[p], Now)
           end == IF valid
                  THEN AfterUpdate(outcome, Success(LoginResponse(u, Now)), "success")
                  ELSE AfterUpdate(outcome, WrongPasswordResult, "wrong_password")
       IN  /\ user' = [user EXCEPT ![p] = u]
           /\ users' = IF outcome = "ok" THEN update(users, u.id, u) ELSE users
           /\ resp' = [resp EXCEPT ![p] = end.resp]
           /\ branch' = [branch EXCEPT ![p] = end.branch]
           /\ attempts' = IF valid
                          THEN IF outcome = "ok"
                               THEN [attempts EXCEPT ![u.id] = 0]
                               ELSE attempts
                          ELSE [attempts EXCEPT ![u.id] = @ + 1]
           /\ everReset' = IF valid /\ outcome = "ok"
                           THEN [everReset EXCEPT ![u.id] = TRUE]
                           ELSE everReset
           /\ lockSeen' = IF outcome = "ok" /\ isLocked(u)
                          THEN [lockSeen EXCEPT ![u.id] = TRUE]
                          ELSE lockSeen
    /\ pc' = [pc EXCEPT ![p] = "done"]
    /\ wrote' = [wrote EXCEPT ![p] = outcome]
    /\ UNCHANGED <<keys, apart, dependencies, session>>
    /\ UNCHANGED <<service, nextId, op, req, found, calls, lastReg, after, regSuccess>>

\* an administrator (or a cooldown) unlocks a locked account: counter to 0
Unlock(id) ==
    /\ NoneDone
    /\ id \in DOMAIN users
    /\ isLocked(users[id])
    /\ unlocks < MaxUnlocks
    /\ unlocks' = unlocks + 1
    /\ users' = [users EXCEPT ![id].failedLoginAttempts = 0]
    /\ attempts' = [attempts EXCEPT ![id] = 0]
    /\ everReset' = [everReset EXCEPT ![id] = TRUE]
    /\ lockSeen' = [lockSeen EXCEPT ![id] = FALSE]
    /\ lastReg' = NoRequest
    /\ UNCHANGED <<keys, apart, dependencies, session>>
    /\ UNCHANGED <<service, nextId, locals, logins, registers, faults, regSuccess>>

\* the caller takes the response; the handler is free again
Return(p) ==
    /\ pc[p] = "done"
    /\ pc' = [pc EXCEPT ![p] = "idle"]
    /\ op' = [op EXCEPT ![p] = "none"]
    /\ req' = [req EXCEPT ![p] = NoRequest]
    /\ user' = [user EXCEPT ![p] = Absent]
    /\ found' = [found EXCEPT ![p] = Absent]
    /\ resp' = [resp EXCEPT ![p] = NoResponse]
    /\ branch' = [branch EXCEPT ![p] = "none"]
    /\ wrote' = [wrote EXCEPT ![p] = "none"]
    /\ after' = [after EXCEPT ![p] = NoRequest]
    /\ UNCHANGED <<keys, apart, dependencies, session>>
    /\ UNCHANGED <<service, users, nextId, calls, faults, history>>

(* ------------------------------ register ------------------------------- *)

\* register: the conflict failure of the findByEmail pre-check
ConflictResult == Failure("User with this email already exists")

\* existingUserResult when findByEmail resolved to a failure Result
LookupFailed == [lookupFailed |-> TRUE]

\* register: the failure of the create step and of the catch block
CreateFailedResult == Failure("Failed to create user account")

\* register: switch (request.role.toUpperCase()): the role of the variant built
VariantRole(role) ==
    CASE ToUpperCase(role) = "TEACHER" -> "TEACHER"
      [] ToUpperCase(role) = "STUDENT" -> "STUDENT"
      [] ToUpperCase(role) \in {"ADMIN", "SCHOOL_ADMIN"} -> "ADMIN"
      [] OTHER -> "invalid"

\* register: the data object handed to the User constructor
UserData(request) ==
    SpreadOver([email |-> request.email,
                passwordHash |-> BcryptHash(request.password, saltRounds),
                schoolId |-> request.schoolId],
               request.additionalData)

\* register up to its await on create: where it goes and what it returns
RegisterCheckStep(ready, request, outcome, existing) ==
    IF ~ready
    THEN [pc |-> "done", resp |-> NotReadyError, branch |-> "not_ready"]
    ELSE IF ~validateRegistrationRequest(request).isSuccess
    THEN [pc |-> "done", resp |-> validateRegistrationRequest(request),
          branch |-> "invalid"]
    ELSE IF outcome = "throw"
    THEN [pc |-> "done", resp |-> CreateFailedResult, branch |-> "exception"]
    ELSE IF outcome = "ok" /\ existing # Absent
    THEN [pc |-> "done", resp |-> ConflictResult, branch |-> "conflict"]
    ELSE IF VariantRole(request.role) = "invalid"
    THEN [pc |-> "done", resp |-> Failure("Invalid user role"), branch |-> "invalid_role"]
    ELSE [pc |-> "reg_create", resp |-> NoResponse, branch |-> "none"]

\* whether register reaches the store's findByEmail
ReachesStore(request) == isReady /\ validateRegistrationRequest(request).isSuccess

\* register, from the call to the await on create
RegisterCheck(p, request, outcome) ==
    /\ pc[p] = "idle"
    /\ NoneDone
    /\ ReachesStore(request) => registers < MaxRegisters
    /\ registers' = IF ReachesStore(request) THEN registers + 1 ELSE registers
    /\ ~ReachesStore(request) => outcome = "ok"
    /\ FaultGuard(outcome)
    /\ LET existing == findByEmail(users, request.email)
           step == RegisterCheckStep(isReady, request, outcome, existing)
           built == step.pc = "reg_create"
       IN  /\ pc' = [pc EXCEPT ![p] = step.pc]
           /\ resp' = [resp EXCEPT ![p] = step.resp]
           /\ branch' = [branch EXCEPT ![p] = step.branch]
           /\ user' = [user EXCEPT ![p] =
                  IF built
                  THEN NewUser(nextId, UserData(request), VariantRole(request.role))
                  ELSE Absent]
           /\ nextId' = IF built THEN nextId + 1 ELSE nextId
           /\ found' = [found EXCEPT ![p] =
                  IF ReachesStore(request) /\ outcome = "ok" THEN existing
                  ELSE IF ReachesStore(request) /\ outcome = "fail" THEN LookupFailed
                  ELSE Absent]
    /\ op' = [op EXCEPT ![p] = "register"]
    /\ req' = [req EXCEPT ![p] = IF isReady THEN request ELSE NoRequest]
    /\ wrote' = [wrote EXCEPT ![p] = "none"]
    /\ after' = [after EXCEPT ![p] = lastReg]
    /\ lastReg' = NoRequest
    /\ UNCHANGED <<keys, apart, dependencies, session>>
    /\ UNCHANGED <<service, users, logins, unlocks, attempts, everReset, lockSeen, regSuccess>>

\* register: what it returns for the outcome of userRepository.create
RegisterCreateStep(outcome, taken, u) ==
    IF outcome = "throw"
    THEN [resp |-> CreateFailedResult, branch |-> "exception", wrote |-> "throw"]
    ELSE IF outcome = "fail"
    THEN [resp |-> CreateFailedResult, branch |-> "create_failed", wrote |-> "fail"]
    ELSE IF taken
    THEN [resp |-> CreateFailedResult, branch |-> "create_conflict",
          wrote |-> "duplicate"]
    ELSE [resp |-> Success(u), branch |-> "success", wrote |-> "ok"]

\* register, from userRepository.create to its return
RegisterCreate(p, outcome) ==
    /\ pc[p] = "reg_create"
    /\ NoneDone
    /\ FaultGuard(outcome)
    /\ LET taken == EmailTaken(users, user[p])
           step == RegisterCreateStep(outcome, taken, user[p])
       IN  /\ resp' = [resp EXCEPT ![p] = step.resp]
           /\ branch' = [branch EXCEPT ![p] = step.branch]
           /\ wrote' = [wrote EXCEPT ![p] = step.wrote]
           /\ users' = IF step.wrote = "ok" THEN create(users, user[p]) ELSE users
           /\ lastReg' = IF step.resp.isSuccess THEN req[p] ELSE lastReg
           /\ regSuccess' = IF step.resp.isSuccess
                            THEN [regSuccess EXCEPT ![req[p].email] = @ + 1]
                            ELSE regSuccess
    /\ pc' = [pc EXCEPT ![p] = "done"]
    /\ UNCHANGED <<keys, apart, dependencies, session>>
    /\ UNCHANGED <<service, nextId, op, req, user, found, calls, after,
                   attempts, everReset, lockSeen>>

(* ---------------------- refreshToken, verifyToken ---------------------- *)

\* the record of user 1 as it was when an earlier session began: another
\* email and another role than the store holds now
EarlierUser ==
    [InitialUser(TRUE, TRUE, 0) EXCEPT !.email = EmailC, !.role = "STUDENT"]

\* a user whose record has been removed from the store since
RemovedUser == [InitialUser(TRUE, TRUE, 0) EXCEPT !.id = 7, !.email = EmailC]

\* tokens the service issued in earlier sessions, at time 0
EarlierRefreshTokens ==
    {generateRefreshToken(EarlierUser, 0), generateRefreshToken(RemovedUser, 0)}

EarlierAccessTokens ==
    {generateAccessToken(EarlierUser, 0), generateAccessToken(RemovedUser, 0)}

\* the tokens a caller may present: the pair it keeps, tokens of earlier
\* sessions, a forged token and a string that is no token
PresentedTokens ==
    (IF held = NoTokens THEN {} ELSE {held.accessToken, held.refreshToken})
    \cup EarlierRefreshTokens \cup EarlierAccessTokens
    \cup {ForgedToken, MalformedToken}

\* refreshToken: the catch block
RefreshCatch(errorName) ==
    IF errorName \in JsonWebTokenErrors
    THEN Failure("Invalid refresh token")
    ELSE Failure("Failed to refresh token")

\* a lookup that lets the token say who the user is
RefreshSubject_FromToken(store, payload) ==
    IF findById(store, payload.userId) = Absent
    THEN Absent
    ELSE [findById(store, payload.userId) EXCEPT
              !.email = payload.email, !.role = payload.role]

\* refreshToken: "Find user": the record stored under the token's subject
RefreshSubject(store, payload) == findById(store, payload.userId)

\* an eligibility check that lets everybody through
RefreshEligibility_Always(u) == TRUE

\* refreshToken: if (!user.canLogin())
RefreshEligibility(u) == canLogin(u)

\* a refreshToken that revokes a refresh token once it has answered it
RefreshStep_Revoking(ready, token, time, outcome, store) ==
    IF ~ready
    THEN [resp |-> NotReadyError, branch |-> "not_ready"]
    ELSE LET verified == JwtVerify(token, jwtRefreshSecret, time)
             u == RefreshSubject(store, verified.payload)
         IN  IF ~verified.ok \/ token \in accepted
             THEN [resp |-> Failure("Invalid refresh token"), branch |-> "bad_token"]
             ELSE IF outcome = "throw"
             THEN [resp |-> RefreshCatch("Error"), branch |-> "exception"]
             ELSE IF outcome = "fail" \/ u = Absent
             THEN [resp |-> Failure("Invalid refresh token"), branch |-> "not_found"]
             ELSE IF ~RefreshEligibility(u)
             THEN [resp |-> Failure("User account is not active"),
                   branch |-> "not_eligible"]
             ELSE [resp |-> Success(LoginResponse(u, time)), branch |-> "success"]

\* refreshToken: what it returns
RefreshStep(ready, token, time, outcome, store) ==
    IF ~ready
    THEN [resp |-> NotReadyError, branch |-> "not_ready"]
    ELSE LET verified == JwtVerify(token, jwtRefreshSecret, time)
             u == RefreshSubject(store, verified.payload)
         IN  IF ~verified.ok
             THEN [resp |-> RefreshCatch(verified.name), branch |-> "bad_token"]
             ELSE IF outcome = "throw"
             THEN [resp |-> RefreshCatch("Error"), branch |-> "exception"]
             ELSE IF outcome = "fail" \/ u = Absent
             THEN [resp |-> Failure("Invalid refresh token"), branch |-> "not_found"]
             ELSE IF ~RefreshEligibility(u)
             THEN [resp |-> Failure("User account is not active"),
                   branch |-> "not_eligible"]
             ELSE [resp |-> Success(LoginResponse(u, time)), branch |-> "success"]

\* verifyToken: the catch block
VerifyCatch(errorName) ==
    IF errorName \in JsonWebTokenErrors
    THEN Failure("Invalid token")
    ELSE Failure("Token verification failed")

\* an activity check that lets everybody through
VerifyActive_Always(u) == TRUE

\* verifyToken: if (!user.isActive)
VerifyActive(u) == u.isActive

\* verifyToken: what it returns
VerifyStep(ready, token, time, outcome, store) ==
    IF ~ready
    THEN [resp |-> NotReadyError, branch |-> "not_ready"]
    ELSE LET verified == JwtVerify(token, jwtSecret, time)
             u == findById(store, verified.payload.userId)
         IN  IF ~verified.ok
             THEN [resp |-> VerifyCatch(verified.name), branch |-> "bad_token"]
             ELSE IF outcome = "throw"
             THEN [resp |-> VerifyCatch("Error"), branch |-> "exception"]
             ELSE IF outcome = "fail" \/ u = Absent
             THEN [resp |-> Failure("Invalid token"), branch |-> "not_found"]
             ELSE IF ~VerifyActive(u)
             THEN [resp |-> Failure("User account is not active"),
                   branch |-> "inactive"]
             ELSE [resp |-> Success(u), branch |-> "success"]

\* whether the call gets as far as the store's findById
TokenReachesStore(token, secret) == isReady /\ JwtVerify(token, secret, Now).ok

\* what refreshToken and verifyToken have in common: one read of the store,
\* no write
TokenCall(p, name, token, secret, outcome, step) ==
    /\ pc[p] = "idle"
    /\ NoneDone
    /\ isReady => sessionCalls < MaxSessionCalls
    /\ sessionCalls' = IF isReady THEN sessionCalls + 1 ELSE sessionCalls
    /\ ~TokenReachesStore(token, secret) => outcome = "ok"
    /\ FaultGuard(outcome)
    /\ pc' = [pc EXCEPT ![p] = "done"]
    /\ op' = [op EXCEPT ![p] = name]
    /\ req' = [req EXCEPT ![p] = IF isReady THEN [token |-> token] ELSE NoRequest]
    /\ resp' = [resp EXCEPT ![p] = step.resp]
    /\ branch' = [branch EXCEPT ![p] = step.branch]
    /\ found' = [found EXCEPT ![p] =
           IF TokenReachesStore(token, secret) /\ outcome = "ok"
           THEN findById(users, JwtVerify(token, secret, Now).payload.userId)
           ELSE Absent]
    /\ wrote' = [wrote EXCEPT ![p] = "none"]
    /\ after' = [after EXCEPT ![p] = NoRequest]
    /\ lastReg' = NoRequest
    /\ UNCHANGED <<keys, apart, dependencies, elapsed, held, ticks>>
    /\ UNCHANGED <<service, users, nextId, user, calls, attempts, everReset, lockSeen,
                   regSuccess>>

\* refreshToken
RefreshToken(p, token, outcome) ==
    /\ TokenCall(p, "refresh", token, jwtRefreshSecret, outcome,
                 RefreshStep(isReady, token, Now, outcome, users))
    /\ accepted' = IF RefreshStep(isReady, token, Now, outcome, users).resp.isSuccess
                   THEN accepted \cup {token}
                   ELSE accepted

\* verifyToken
VerifyToken(p, token, outcome) ==
    /\ TokenCall(p, "verify", token, jwtSecret, outcome,
                 VerifyStep(isReady, token, Now, outcome, users))
    /\ UNCHANGED accepted

\* the caller takes the response of a login or a refresh and keeps its tokens
StoreTokens(p) ==
    /\ pc[p] = "done"
    /\ op[p] \in {"login", "refresh"}
    /\ resp[p].isSuccess
    /\ held' = [accessToken |-> resp[p].data.accessToken,
                refreshToken |-> resp[p].data.refreshToken,
                from |-> op[p]]
    /\ pc' = [pc EXCEPT ![p] = "idle"]
    /\ op' = [op EXCEPT ![p] = "none"]
    /\ req' = [req EXCEPT ![p] = NoRequest]
    /\ user' = [user EXCEPT ![p] = Absent]
    /\ found' = [found EXCEPT ![p] = Absent]
    /\ resp' = [resp EXCEPT ![p] = NoResponse]
    /\ branch' = [branch EXCEPT ![p] = "none"]
    /\ wrote' = [wrote EXCEPT ![p] = "none"]
    /\ after' = [after EXCEPT ![p] = NoRequest]
    /\ UNCHANGED <<keys, apart, dependencies, elapsed, accepted, sessionCalls, ticks>>
    /\ UNCHANGED <<service, users, nextId, calls, faults, history>>

\* time passes between calls
Tick(d) ==
    /\ NoneDone
    /\ ticks < MaxTicks
    /\ ticks' = ticks + 1
    /\ elapsed' = elapsed + d
    /\ UNCHANGED <<keys, apart, dependencies, held, accepted, sessionCalls>>
    /\ UNCHANGED <<service, users, nextId, locals, calls, faults, history>>

\* an administrator switches an account off
Deactivate(id) ==
    /\ NoneDone
    /\ id \in DOMAIN users
    /\ users[id].isActive
    /\ users' = [users EXCEPT ![id].isActive = FALSE]
    /\ lastReg' = NoRequest
    /\ UNCHANGED <<keys, apart, dependencies, session>>
    /\ UNCHANGED <<service, nextId, locals, calls, faults, attempts, everReset,
                   lockSeen, regSuccess>>

(* --------------------------- changePassword --------------------------- *)

\* a check of the current password that lets every password through
CurrentPasswordValid_Always(request, u) == TRUE

\* changePassword: "Verify current password"
CurrentPasswordValid(request, u) ==
    BcryptCompare(request.currentPassword, u.passwordHash)

\* a check of the new password by its length alone
ChangeValidation_LengthOnly(newPassword) ==
    IF Len(newPassword) < MinPasswordLength
    THEN Failure("Password must be at least 8 characters long")
    ELSE Success([value |-> TRUE])

\* changePassword: "Validate new password"
ChangeValidation(newPassword) == validatePassword(newPassword)

\* changePassword up to its await on update: where it goes and what it returns
ChangeFindStep(ready, outcome, u, request) ==
    IF ~ready
    THEN [pc |-> "done", resp |-> NotReadyError, branch |-> "not_ready"]
    ELSE IF outcome = "throw"
    THEN [pc |-> "done", resp |-> Failure("Failed to change password"),
          branch |-> "exception"]
    ELSE IF outcome = "fail" \/ u = Absent
    THEN [pc |-> "done", resp |-> Failure("User not found"), branch |-> "not_found"]
    ELSE IF ~CurrentPasswordValid(request, u)
    THEN [pc |-> "done", resp |-> Failure("Current password is incorrect"),
          branch |-> "wrong_current"]
    ELSE IF ~ChangeValidation(request.newPassword).isSuccess
    THEN [pc |-> "done", resp |-> ChangeValidation(request.newPassword),
          branch |-> "weak"]
    ELSE [pc |-> "change_write", resp |-> NoResponse, branch |-> "none"]

\* changePassword, from the call to the await on update
ChangeFind(p, request, outcome) ==
    /\ pc[p] = "idle"
    /\ NoneDone
    /\ isReady => sessionCalls < MaxSessionCalls
    /\ sessionCalls' = IF isReady THEN sessionCalls + 1 ELSE sessionCalls
    /\ ~isReady => outcome = "ok"
    /\ FaultGuard(outcome)
    /\ LET u == findById(users, request.userId)
           step == ChangeFindStep(isReady, outcome, u, request)
       IN  /\ pc' = [pc EXCEPT ![p] = step.pc]
           /\ resp' = [resp EXCEPT ![p] = step.resp]
           /\ branch' = [branch EXCEPT ![p] = step.branch]
           /\ user' = [user EXCEPT ![p] =
                  IF step.pc = "done"
                  THEN Absent
                  ELSE resetPassword(u, BcryptHash(request.newPassword, saltRounds),
                                     request.userId, Now)]
           /\ found' = [found EXCEPT ![p] = IF isReady /\ outcome = "ok" THEN u ELSE Absent]
           /\ lastReg' = IF step.branch = "wrong_current"
                         THEN [changeOf |-> u.id, passwordHash |-> u.passwordHash]
                         ELSE NoRequest
    /\ op' = [op EXCEPT ![p] = "change"]
    /\ req' = [req EXCEPT ![p] = IF isReady THEN request ELSE NoRequest]
    /\ wrote' = [wrote EXCEPT ![p] = "none"]
    /\ after' = [after EXCEPT ![p] = NoRequest]
    /\ UNCHANGED <<keys, apart, dependencies, elapsed, held, accepted, ticks>>
    /\ UNCHANGED <<service, users, nextId, calls, attempts, everReset, lockSeen,
                   regSuccess>>

\* changePassword, from userRepository.update to its return; the Result of
\* update is dropped, an exception goes to the catch block
ChangeWrite(p, outcome) ==
    /\ pc[p] = "change_write"
    /\ NoneDone
    /\ FaultGuard(outcome)
    /\ users' = IF outcome = "ok" THEN update(users, req[p].userId, user[p]) ELSE users
    /\ resp' = [resp EXCEPT ![p] =
           IF outcome = "throw"
           THEN Failure("Failed to change password")
           ELSE Success([value |-> TRUE])]
    /\ branch' = [branch EXCEPT ![p] = IF outcome = "throw" THEN "exception" ELSE "success"]
    /\ wrote' = [wrote EXCEPT ![p] = outcome]
    /\ pc' = [pc EXCEPT ![p] = "done"]
    /\ lastReg' = NoRequest
    /\ UNCHANGED <<keys, apart, dependencies, session>>
    /\ UNCHANGED <<service, nextId, op, req, user, found, calls, after,
                   attempts, everReset, lockSeen, regSuccess>>

(* --------------------------- specifications ---------------------------- *)

\* the calls made so far are fewer than the calls of one behaviour
CallsLeft == logins + registers + sessionCalls < MaxCalls

Next ==
    \/ Initialize
    \/ Shutdown
    \/ \E p \in Procs, request \in LoginRequests, outcome \in StoreOutcomes :
           CallsLeft /\ LoginFind(p, request, outcome)
    \/ \E p \in Procs, outcome \in StoreOutcomes : LoginVerify(p, outcome)
    \/ \E p \in Procs, request \in RegisterRequests, outcome \in StoreOutcomes :
           CallsLeft /\ RegisterCheck(p, request, outcome)
    \/ \E p \in Procs, outcome \in StoreOutcomes : RegisterCreate(p, outcome)
    \/ \E id \in Ids : Unlock(id)
    \/ \E p \in Procs : Return(p)

\* handlers overlap at their awaits
Spec == Init /\ [][Next]_vars

\* no two calls overlap: one caller awaits each call before making the next,
\* and the first handler serves them all
OneAtATime == \A p \in Procs \ {1} : pc[p] = "idle"

SeqNext ==
    \/ Initialize
    \/ Shutdown
    \/ \E request \in LoginRequests, outcome \in StoreOutcomes :
           LoginFind(1, request, outcome) /\ OneAtATime'
    \/ \E outcome \in StoreOutcomes : LoginVerify(1, outcome) /\ OneAtATime'
    \/ \E request \in RegisterRequests, outcome \in StoreOutcomes :
           RegisterCheck(1, request, outcome) /\ OneAtATime'
    \/ \E outcome \in StoreOutcomes : RegisterCreate(1, outcome) /\ OneAtATime'
    \/ \E id \in Ids : Unlock(id)
    \/ Return(1)

SeqSpec == Init /\ [][SeqNext]_vars

\* the validators at work: one caller registers and changes passwords with
\* the candidate passwords and roles, over a store that answers
PolicyInit ==
    /\ Init
    /\ users[1] = InitialUser(TRUE, TRUE, 0)

PolicyNext ==
    \/ Initialize
    \/ \E request \in PolicyRequests : RegisterCheck(1, request, "ok")
    \/ RegisterCreate(1, "ok")
    \/ \E request \in ChangeRequests : ChangeFind(1, request, "ok")
    \/ ChangeWrite(1, "ok")
    \/ Return(1)

PolicySpec == PolicyInit /\ [][PolicyNext]_vars

\* sessions: one caller logs in, keeps the tokens, presents tokens to
\* refreshToken and verifyToken and changes the password, while time passes
\* and an administrator may switch the account off
SessionInit ==
    /\ \E refreshSecret \in Keys : Constructed("access-secret", refreshSecret)
    /\ users[1] = InitialUser(TRUE, TRUE, 0)

\* the caller logs in, with the password the account was created with, while
\* it keeps no tokens
SessionLogins == {r \in LoginRequests : r.email = EmailA /\ r.password = PwdGood}

SessionChangeRequests == {r \in ChangeRequests : r.newPassword = PwdOther}

SessionNext ==
    \/ Initialize
    \/ \E request \in SessionLogins : held = NoTokens /\ LoginFind(1, request, "ok")
    \/ LoginVerify(1, "ok")
    \/ \E token \in PresentedTokens, outcome \in StoreOutcomes :
           RefreshToken(1, token, outcome)
    \/ \E token \in PresentedTokens, outcome \in StoreOutcomes :
           VerifyToken(1, token, outcome)
    \/ \E request \in SessionChangeRequests : ChangeFind(1, request, "ok")
    \/ ChangeWrite(1, "ok")
    \/ \E d \in ClockSteps : pc[1] = "idle" /\ Tick(d)
    \/ \E id \in Ids : Deactivate(id)
    \/ StoreTokens(1)
    \/ Return(1)

SessionSpec == SessionInit /\ [][SessionNext]_vars

\* faults: one caller makes at most MaxCalls calls, of every operation of
\* the core, over a store whose calls may answer, resolve to a failure Result
\* or throw
FaultInit ==
    /\ Init
    /\ users[1] = InitialUser(TRUE, TRUE, 0)

FaultChangeRequests == {r \in ChangeRequests : r.newPassword \in {PwdOther, PwdWeak}}

FaultNext ==
    \/ Initialize
    \/ \E request \in LoginRequests, outcome \in StoreOutcomes :
           CallsLeft /\ LoginFind(1, request, outcome)
    \/ \E outcome \in StoreOutcomes : LoginVerify(1, outcome)
    \/ \E request \in RegisterRequests, outcome \in StoreOutcomes :
           CallsLeft /\ RegisterCheck(1, request, outcome)
    \/ \E outcome \in StoreOutcomes : RegisterCreate(1, outcome)
    \/ \E token \in PresentedTokens, outcome \in StoreOutcomes :
           CallsLeft /\ RefreshToken(1, token, outcome)
    \/ \E token \in PresentedTokens, outcome \in StoreOutcomes :
           CallsLeft /\ VerifyToken(1, token, outcome)
    \/ \E request \in FaultChangeRequests, outcome \in StoreOutcomes :
           CallsLeft /\ ChangeFind(1, request, outcome)
    \/ \E outcome \in StoreOutcomes : ChangeWrite(1, outcome)
    \/ StoreTokens(1)
    \/ Return(1)

FaultSpec == FaultInit /\ [][FaultNext]_vars

\* the life of a service, built with secrets that may be empty, whose health
\* is asked at every point of it
HealthInit ==
    \E secret \in {"", "access-secret"}, refreshSecret \in {"", "refresh-secret"} :
        Constructed(secret, refreshSecret)

HealthNext ==
    \/ Initialize
    \/ Shutdown
    \/ \E outcome \in StoreOutcomes : Health(outcome)

HealthSpec == HealthInit /\ [][HealthNext]_vars

\* the life of a service whose initialize() and shutdown() are called by
\* callers that do not wait for one another, and whose health is asked
LifeNext ==
    \/ \E c \in Procs : InitializeCall(c)
    \/ \E c \in Procs : InitializeResume(c)
    \/ \E c \in Procs : ShutdownCall(c)
    \/ \E c \in Procs : ShutdownResume(c)
    \/ \E outcome \in StoreOutcomes : Health(outcome)

LifeSpec == HealthInit /\ [][LifeNext]_vars

\* a service whose dependencies are registered and removed in any order and
\* whose health is asked while the checks behave in every way
DependencyNext ==
    \/ \E name \in DependencyNames : AddDependency(name)
    \/ \E name \in DependencyNames : RemoveDependency(name)
    \/ \E checks \in [Registered -> CheckBehaviours],
          serviceCheck \in CheckBehaviours : HealthOf(checks, serviceCheck)

DependencySpec == PolicyInit /\ [][DependencyNext]_vars

\* one auditable entity, constructed and then mutated through addAuditEntry
\* and auditUpdate while time passes
EntityInit ==
    /\ ConstructedService("access-secret", "refresh-secret")
    /\ users[1] = InitialUser(TRUE, TRUE, 0)
    /\ \E data \in EntityData : entity = NewEntity(data, 0)
    /\ created = entity
    /\ mutations = 0
    /\ theResult = NoResult
    /\ out = NoOutcome
    /\ lastCall = NoCall

EntityNext ==
    \/ \E userId \in Actors, action \in {"UPDATE", "VIEW"} :
           AddAuditEntry(userId, action)
    \/ \E updates \in EntityUpdates, userId \in Actors : AuditUpdate(updates, userId)
    \/ Tick(1)

EntitySpec == EntityInit /\ [][EntityNext]_vars

\* one Result object: built, read, mapped, chained, matched and unwrapped
ResultNext ==
    \/ \E d \in Payloads : MakeSuccess(d)
    \/ \E e \in Messages, details \in Details : MakeFailure(e, details)
    \/ ReadData
    \/ ReadError
    \/ \E fn \in MapFns : Map(fn)
    \/ \E fn \in FlatFns : FlatMap(fn)
    \/ Match
    \/ \E defaultValue \in Payloads : UnwrapOr(defaultValue)
    \/ UnwrapOrThrow

ResultSpec == PolicyInit /\ [][ResultNext]_vars

(* ------------------------- reading the handlers ------------------------ *)

\* handler p has returned from a changePassword that validateReady let in
ChangeDone(p) == pc[p] = "done" /\ op[p] = "change" /\ req[p] # NoRequest

\* handler p has returned from a refreshToken that validateReady let in
RefreshDone(p) == pc[p] = "done" /\ op[p] = "refresh" /\ req[p] # NoRequest

\* handler p has returned from a verifyToken that validateReady let in
VerifyDone(p) == pc[p] = "done" /\ op[p] = "verify" /\ req[p] # NoRequest

\* the failure payload with the one message given and no details
FailurePayload(message) ==
    [isSuccess |-> FALSE, data |-> Absent, error |-> <<message>>,
     errorDetails |-> Absent, thrown |-> FALSE]

\* the token handler p was given, checked against the refresh key and
\* against the access key at the present time
AsRefresh(p) == JwtVerify(req[p].token, jwtRefreshSecret, Now)
AsAccess(p) == JwtVerify(req[p].token, jwtSecret, Now)

\* the refresh tokens and the access tokens the service has issued
IssuedRefreshTokens ==
    EarlierRefreshTokens \cup (IF held = NoTokens THEN {} ELSE {held.refreshToken})

IssuedAccessTokens ==
    EarlierAccessTokens \cup (IF held = NoTokens THEN {} ELSE {held.accessToken})

\* the failure handler p returned lists one of the given messages
Lists(p, messages) ==
    /\ ~resp[p].isSuccess
    /\ \E i \in DOMAIN resp[p].error : resp[p].error[i] \in messages

\* the messages register rejects a password with
PasswordMessages ==
    {"Password is required",
     "Password must be at least 8 characters long",
     "Password must contain at least one uppercase letter",
     "Password must contain at least one lowercase letter",
     "Password must contain at least one number"}

\* the characters of a string
Chars(str) == {str[i] : i \in DOMAIN str}

\* length at least 8, an uppercase letter, a lowercase letter and a digit
MeetsPolicy(password) ==
    /\ Len(password) >= 8
    /\ Chars(password) \cap UpperChars # {}
    /\ Chars(password) \cap LowerChars # {}
    /\ Chars(password) \cap DigitChars # {}

\* the roles the specification recognizes
RecognizedRoles == {"TEACHER", "STUDENT", "ADMIN", "PARENT", "SUPPORT"}

\* handler p has returned from a login that validateReady let in
LoginDone(p) == pc[p] = "done" /\ op[p] = "login" /\ req[p] # NoRequest

\* handler p has returned from a register that validateReady let in
RegisterDone(p) == pc[p] = "done" /\ op[p] = "register" /\ req[p] # NoRequest

\* the login of handler p located a record
Located(p) == found[p] # Absent

\* the login of handler p supplied the password of the record it located
CorrectPassword(p) ==
    Located(p) /\ BcryptCompare(req[p].password, found[p].passwordHash)

\* active, verified and unlocked, read off the record's fields
Eligible(u) ==
    u.isActive /\ u.isVerified /\ u.failedLoginAttempts < LockThreshold

\* the failure payload with the message 'Authentication failed' and no details
OpaqueFailure ==
    [isSuccess |-> FALSE, data |-> Absent, error |-> <<"Authentication failed">>,
     errorDetails |-> Absent, thrown |-> FALSE]

\* the failure payload of a locked account
LockedFailure ==
    [isSuccess |-> FALSE, data |-> Absent,
     error |-> <<"Account is locked due to multiple failed attempts">>,
     errorDetails |-> Absent, thrown |-> FALSE]

\* the conflict failure payload of register
ConflictFailure ==
    [isSuccess |-> FALSE, data |-> Absent,
     error |-> <<"User with this email already exists">>,
     errorDetails |-> Absent, thrown |-> FALSE]

\* no login of the record id is between its read and its write
NoLoginInFlight(id) ==
    \A p \in Procs : pc[p] = "login_verify" => user[p].id # id

(* -------------------------------- claims ------------------------------- *)

\* C1: while the store works, 5 wrong-password logins in a row lock the
\* account; a locked account answers every login, also one with the correct
\* password, with the lock message; and every login made after the account
\* was locked gets the lock message, until an unlock sets the counter to 0.
C1_LockedUntilUnlock ==
    /\ [](\A id \in DOMAIN users :
            (faults = 0 /\ NoLoginInFlight(id) /\ Eligible(users[id]))
            => attempts[id] < LockThreshold)
    /\ [](\A p \in Procs :
            (LoginDone(p) /\ Located(p)
                /\ found[p].failedLoginAttempts >= LockThreshold)
            => resp[p] = LockedFailure)
    /\ [][\A p \in Procs :
            (pc[p] = "idle" /\ pc'[p] # "idle" /\ op'[p] = "login"
                /\ faults' = 0 /\ found'[p] # Absent
                /\ lockSeen[found'[p].id])
            => resp'[p] = LockedFailure]_vars

\* C2: with the store working, once the wrong-password logins against an
\* account whose counter was never reset have all returned, the persisted
\* counter equals min(number of those logins, 5).
C2_NoLostIncrement ==
    \A id \in DOMAIN users :
        (faults = 0 /\ ~everReset[id] /\ NoLoginInFlight(id)
            /\ users[id].isActive /\ users[id].isVerified)
        => users[id].failedLoginAttempts = Min(attempts[id], LockThreshold)

\* C3: a login for an email without a record and a login with a wrong
\* password for an eligible user return the same payload: the failure
\* 'Authentication failed' without error details.
C3_NotFoundEqualsWrongPassword ==
    \A p \in Procs :
        (LoginDone(p)
            /\ \/ branch[p] = "not_found"
               \/ Located(p) /\ Eligible(found[p]) /\ ~CorrectPassword(p))
        => resp[p] = OpaqueFailure

C3_Witness ==
    \E p \in Procs :
        /\ LoginDone(p) /\ Located(p) /\ Eligible(found[p]) /\ ~CorrectPassword(p)
        /\ wrote[p] = "ok"
        /\ users[found[p].id].failedLoginAttempts > 0

\* C4: a login without the correct password gets, for a locked, inactive or
\* unverified account, the response a login for an unknown email gets.
C4_StatusHiddenWithoutPassword ==
    \A p \in Procs :
        (LoginDone(p) /\ Located(p) /\ ~Eligible(found[p]) /\ ~CorrectPassword(p))
        => resp[p] = LoginFindStep(TRUE, "ok", Absent).resp

\* C5: a login that returns success read a record that was active, verified
\* and unlocked; a login that read a record missing one of the three fails,
\* whatever the password.
C5_SuccessOnlyIfEligible ==
    \A p \in Procs :
        LoginDone(p) =>
            /\ resp[p].isSuccess => Located(p) /\ Eligible(found[p])
            /\ (Located(p) /\ ~Eligible(found[p])) => ~resp[p].isSuccess

C5_Witness ==
    \E p \in Procs :
        /\ LoginDone(p) /\ CorrectPassword(p)
        /\ found[p].isActive /\ ~found[p].isVerified
        /\ ~resp[p].isSuccess

\* C6: a login that returns success has its reset of the counter and its
\* login time persisted, by a store write that succeeded, and carries an
\* access and a refresh token.
C6_SuccessMeansPersisted ==
    \A p \in Procs :
        (LoginDone(p) /\ resp[p].isSuccess) =>
            /\ wrote[p] = "ok"
            /\ resp[p].data.user.failedLoginAttempts = 0
            /\ resp[p].data.user.lastLoginAt = Now
            /\ users[resp[p].data.user.id] = resp[p].data.user
            /\ resp[p].data.accessToken.key = jwtSecret
            /\ resp[p].data.refreshToken.key = jwtRefreshSecret

\* C7: with the store working, the return of a wrong-password login for an
\* eligible account leaves the persisted counter 1 above what it was, and
\* the login returns the opaque failure.
C7_WrongPasswordIncrements ==
    [][\A p \in Procs :
        (pc[p] = "login_verify" /\ pc'[p] = "done" /\ faults' = 0
            /\ ~BcryptCompare(req[p].password, user[p].passwordHash))
        => /\ resp'[p] = OpaqueFailure
           /\ users'[user[p].id].failedLoginAttempts =
                  users[user[p].id].failedLoginAttempts + 1]_vars

\* C8: with the store working, the login that directly follows a successful
\* register, with the email and password of its request, succeeds and
\* returns a user with the email of the request.
C8_RegisterThenLogin ==
    \A p \in Procs :
        (LoginDone(p) /\ faults = 0 /\ after[p] # NoRequest
            /\ req[p].email = after[p].email
            /\ req[p].password = after[p].password)
        => /\ resp[p].isSuccess
           /\ resp[p].data.user.email = after[p].email

\* C9: with the store working, a register for an email that is registered
\* returns the conflict failure, whether the findByEmail check or the
\* store's uniqueness constraint found the duplicate.
C9_DuplicateIsConflict ==
    \A p \in Procs :
        (RegisterDone(p) /\ faults = 0
            /\ \/ branch[p] = "conflict"
               \/ branch[p] = "create_conflict" /\ user[p].email = req[p].email)
        => resp[p] = ConflictFailure

\* C10: no two records of the store have the same email, and of the
\* register calls for one email at most one returns success.
C10_UniqueEmail ==
    /\ \A i \in DOMAIN users : \A j \in DOMAIN users :
           users[i].email = users[j].email => i = j
    /\ \A e \in RequestEmails : regSuccess[e] <= 1

\* C11: register rejects a request on role grounds exactly when its role is
\* not one of TEACHER, STUDENT, ADMIN, PARENT, SUPPORT, and every user it
\* creates has a role of that set.
C11_RecognizedRoles ==
    \A p \in Procs :
        RegisterDone(p) =>
            /\ (Lists(p, {"Valid role is required", "Invalid user role"})
                    <=> ToUpperCase(req[p].role) \notin RecognizedRoles)
            /\ branch[p] = "success" => resp[p].data.role \in RecognizedRoles

\* C12: register rejects the password of a request exactly when the password
\* is shorter than 8 or lacks an uppercase letter, a lowercase letter or a
\* digit; "abc" is rejected and "Abcdef12" is not.
C12_PasswordPolicy ==
    \A p \in Procs :
        RegisterDone(p) =>
            /\ Lists(p, PasswordMessages) <=> ~MeetsPolicy(req[p].password)
            /\ req[p].password = PwdWeak => Lists(p, PasswordMessages)
            /\ req[p].password = PwdGood => ~Lists(p, PasswordMessages)

C12_Witness ==
    \E p \in Procs :
        /\ RegisterDone(p)
        /\ req[p].password = PwdGood
        /\ branch[p] = "success"

\* C13: a changePassword with the correct current password rejects the new
\* password, with a message of the password rules, exactly when the
\* validation of register rejects that password.
C13_SamePolicyAsRegister ==
    \A p \in Procs :
        (ChangeDone(p) /\ found[p] # Absent
            /\ BcryptCompare(req[p].currentPassword, found[p].passwordHash))
        => /\ branch[p] = "weak" <=> Lists(p, PasswordMessages)
           /\ branch[p] = "weak" <=>
                  \E i \in DOMAIN RegistrationErrors(
                                  [RequestB EXCEPT !.password = req[p].newPassword]) :
                      RegistrationErrors(
                          [RequestB EXCEPT !.password = req[p].newPassword])[i]
                      \in PasswordMessages

C13_Witness ==
    \E p \in Procs :
        /\ ChangeDone(p)
        /\ BcryptCompare(req[p].currentPassword, found[p].passwordHash)
        /\ Len(req[p].newPassword) >= MinPasswordLength
        /\ branch[p] = "weak"

\* C14: refreshToken answers a token that is malformed, that is signed with
\* another key or that has expired with one and the same failure, 'Invalid
\* refresh token' without details.
C14_InvalidRefreshTokenUniform ==
    \A p \in Procs :
        (RefreshDone(p) /\ ~AsRefresh(p).ok)
        => resp[p] = FailurePayload("Invalid refresh token")

C14_Witness ==
    \E p \in Procs :
        /\ RefreshDone(p)
        /\ ~AsRefresh(p).ok
        /\ AsRefresh(p).name = "TokenExpiredError"

\* C15: with the store working, a valid refresh token of a stored user is
\* answered with success exactly when the record the store holds at that
\* moment is active, verified and unlocked: a token that was accepted before
\* is refused once the user has been deactivated.
C15_RefreshRechecksEligibility ==
    \A p \in Procs :
        (RefreshDone(p) /\ AsRefresh(p).ok /\ faults = 0
            /\ AsRefresh(p).payload.userId \in DOMAIN users)
        => (resp[p].isSuccess <=> Eligible(users[AsRefresh(p).payload.userId]))

C15_Witness ==
    \E p \in Procs :
        /\ RefreshDone(p)
        /\ AsRefresh(p).ok
        /\ req[p].token \in accepted
        /\ ~users[AsRefresh(p).payload.userId].isActive
        /\ ~resp[p].isSuccess

\* C16: the user and the two tokens a successful refreshToken returns carry
\* the id, email, role and school id of the record the store holds under the
\* subject id of the presented token, not the email and role in the token.
C16_RefreshFromPersistedRecord ==
    \A p \in Procs :
        (RefreshDone(p) /\ resp[p].isSuccess) =>
            LET u == users[AsRefresh(p).payload.userId]
                r == resp[p].data
            IN  /\ r.user = u
                /\ r.accessToken.payload.userId = u.id
                /\ r.accessToken.payload.email = u.email
                /\ r.accessToken.payload.role = u.role
                /\ r.accessToken.payload.schoolId = u.schoolId
                /\ r.refreshToken.payload.userId = u.id
                /\ r.refreshToken.payload.email = u.email
                /\ r.refreshToken.payload.role = u.role

C16_Witness ==
    \E p \in Procs :
        /\ RefreshDone(p)
        /\ resp[p].isSuccess
        /\ req[p].token.payload.email # resp[p].data.user.email
        /\ req[p].token.payload.role # resp[p].data.user.role

\* C17: with the store working, verifyToken accepts the access token of a
\* successful login and returns the user of the same id while less than 900
\* seconds have passed since the login and the user is active; from the
\* 900th second on it answers 'Invalid token'.
C17_AccessTokenRoundTrip ==
    \A p \in Procs :
        (VerifyDone(p) /\ held # NoTokens /\ held.from = "login"
            /\ req[p].token = held.accessToken /\ faults = 0)
        => LET payload == req[p].token.payload
           IN  /\ (Now < payload.iat + 900 /\ users[payload.userId].isActive)
                      => resp[p].isSuccess /\ resp[p].data.id = payload.userId
               /\ Now >= payload.iat + 900
                      => resp[p] = FailurePayload("Invalid token")

C17_Witness ==
    \E p \in Procs :
        /\ VerifyDone(p)
        /\ held # NoTokens
        /\ held.from = "login"
        /\ req[p].token = held.accessToken
        /\ Now = req[p].token.payload.iat + 900
        /\ ~resp[p].isSuccess

\* C18: with the store working, verifyToken refuses a valid access token
\* whose subject has no record or an inactive one, returns the record the
\* store holds otherwise, and never changes the store.
C18_VerifyReturnsLiveRecord ==
    /\ [](\A p \in Procs :
            (VerifyDone(p) /\ AsAccess(p).ok /\ faults = 0) =>
                LET id == AsAccess(p).payload.userId
                IN  IF id \notin DOMAIN users \/ ~users[id].isActive
                    THEN ~resp[p].isSuccess
                    ELSE resp[p].isSuccess /\ resp[p].data = users[id])
    /\ [][\A p \in Procs :
            (pc[p] = "idle" /\ pc'[p] = "done" /\ op'[p] = "verify")
            => users' = users]_vars

C18_Witness ==
    \E p \in Procs :
        /\ VerifyDone(p)
        /\ resp[p].isSuccess
        /\ req[p].token.payload.email # resp[p].data.email

\* C19: verifyToken accepts no refresh token the service issued, and
\* refreshToken accepts no access token the service issued.
C19_TokensNotInterchangeable ==
    \A p \in Procs :
        /\ (VerifyDone(p) /\ req[p].token \in IssuedRefreshTokens)
               => ~resp[p].isSuccess
        /\ (RefreshDone(p) /\ req[p].token \in IssuedAccessTokens)
               => ~resp[p].isSuccess

\* C20: a changePassword with a wrong current password fails and leaves the
\* record as the store held it, and the login that follows it with the
\* password of that record succeeds when the account is eligible.
C20_WrongCurrentChangesNothing ==
    \A p \in Procs :
        /\ (ChangeDone(p) /\ found[p] # Absent
                /\ ~BcryptCompare(req[p].currentPassword, found[p].passwordHash))
               => /\ ~resp[p].isSuccess
                  /\ users[found[p].id] = found[p]
        /\ (LoginDone(p) /\ "changeOf" \in DOMAIN after[p] /\ Located(p)
                /\ found[p].id = after[p].changeOf
                /\ BcryptCompare(req[p].password, after[p].passwordHash)
                /\ Eligible(found[p]))
               => resp[p].isSuccess

C20_Witness ==
    \E p \in Procs :
        /\ LoginDone(p)
        /\ "changeOf" \in DOMAIN after[p]
        /\ found[p].id = after[p].changeOf
        /\ BcryptCompare(req[p].password, after[p].passwordHash)
        /\ resp[p].isSuccess

\* C21: whenever changePassword returns success the store write succeeded,
\* the store holds the new hash, and the persisted record is one version
\* higher and one audit entry longer than the record the call read.
C21_ChangeSuccessPersisted ==
    \A p \in Procs :
        (ChangeDone(p) /\ resp[p].isSuccess)
            => /\ wrote[p] = "ok"
               /\ users[req[p].userId].passwordHash
                      = BcryptHash(req[p].newPassword, saltRounds)
               /\ users[req[p].userId].version = found[p].version + 1
               /\ Len(users[req[p].userId].auditLog)
                      = Len(found[p].auditLog) + 1

\* a call of one of the five operations that validateReady let in has returned
CallDone(p) ==
    /\ pc[p] = "done"
    /\ op[p] \in {"login", "register", "refresh", "verify", "change"}
    /\ req[p] # NoRequest

\* C22: on a ready service every call of login, register, refreshToken,
\* verifyToken and changePassword ends by returning a Result, never by
\* raising, whatever the store and the token library do.
C22_AlwaysAResult ==
    \A p \in Procs :
        CallDone(p) => /\ ~resp[p].thrown
                       /\ resp[p].isSuccess \in BOOLEAN

C22_Witness ==
    \E p \in Procs :
        /\ CallDone(p)
        /\ branch[p] = "exception"
        /\ wrote[p] = "throw"
        /\ ~resp[p].thrown

\* the failure messages login, refreshToken, verifyToken and changePassword
\* are written with
CoreMessages ==
    {"Authentication failed",
     "Account is locked due to multiple failed attempts",
     "Account is inactive",
     "Account is not verified",
     "Invalid refresh token",
     "User account is not active",
     "Failed to refresh token",
     "Invalid token",
     "Token verification failed",
     "User not found",
     "Current password is incorrect",
     "Failed to change password"}
    \cup (PasswordMessages \ {"Password is required"})

\* every failure login, refreshToken, verifyToken and changePassword return
\* carries one message, out of the fixed set
MessagesFixed ==
    \A p \in Procs :
        (CallDone(p) /\ op[p] # "register" /\ ~resp[p].isSuccess)
            => /\ Len(resp[p].error) = 1
               /\ resp[p].error[1] \in CoreMessages
               /\ resp[p].errorDetails = Absent

\* a store call of the register of handler p failed: findByEmail or create
\* resolved to a failure Result, or one of them threw
StoreFailedInRegister(p) ==
    \/ found[p] = LookupFailed
    \/ wrote[p] \in {"fail", "throw"}
    \/ branch[p] = "exception"

\* C23: no store error text reaches the caller: a register during which the
\* store failed returns the generic 'Failed to create user account', and
\* every failure message of the other four operations is one of the fixed
\* messages.
C23_NoStoreErrorReachesCaller ==
    /\ MessagesFixed
    /\ \A p \in Procs :
           (RegisterDone(p) /\ StoreFailedInRegister(p))
               => resp[p] = CreateFailedResult

\* C24: health() reports UNHEALTHY whenever the store's count() fails or a
\* signing secret is empty, and HEALTHY only when count() succeeds and both
\* secrets are non-empty, wherever in the life of the service it is called.
C24_HealthReflectsStoreAndSecrets ==
    report # NoReport
        => /\ (report.probe # "ok" \/ jwtSecret = "" \/ jwtRefreshSecret = "")
                  => report.status = "UNHEALTHY"
           /\ report.status = "HEALTHY"
                  => (report.probe = "ok" /\ jwtSecret # "" /\ jwtRefreshSecret # "")

\* the earlier sequence is a prefix of the later one
IsPrefix(earlier, later) ==
    /\ Len(earlier) <= Len(later)
    /\ \A i \in 1..Len(earlier) : later[i] = earlier[i]

\* C25: in every reachable state of an auditable entity the version is its
\* initial version plus the number of audit entries appended, and the audit
\* log is longer than the initial one by that same number: each mutation
\* adds exactly one entry and exactly 1 to the version, never one without
\* the other.
C25_VersionCountsMutations ==
    entity # NoEntity
        => /\ entity.version = created.version + mutations
           /\ Len(entity.auditLog) = Len(created.auditLog) + mutations

\* C26: across every operation the earlier audit log is a prefix of the later
\* one and the version does not decrease.
C26_AppendOnlyAndMonotonic ==
    [][entity # NoEntity
          => /\ IsPrefix(entity.auditLog, entity'.auditLog)
             /\ entity'.version >= entity.version]_vars

\* the lock of a stored record changes in this step only through the counter:
\* it closes by the write of a wrong-password login that adds 1 to the
\* counter it read, and opens only by the counter going back to 0
LockFollowsCounter ==
    \A id \in DOMAIN users :
        /\ (~isLocked(users[id]) /\ isLocked(users'[id]))
               => \E p \in Procs :
                      /\ pc[p] = "login_verify" /\ pc'[p] = "done"
                      /\ branch'[p] = "wrong_password"
                      /\ found[p].id = id
                      /\ users'[id].failedLoginAttempts
                             = found[p].failedLoginAttempts + 1
        /\ (isLocked(users[id]) /\ ~isLocked(users'[id]))
               => users'[id].failedLoginAttempts = 0

C28_ExactlyOneOfSuccessFailure ==
    /\ theResult # NoResult => (isSuccess(theResult) <=> ~isFailure(theResult))
    /\ out # NoOutcome /\ out.op = "success"
           => /\ isSuccess(theResult)
              /\ dataOf(theResult) = Returned(out.args.data)
    /\ out # NoOutcome /\ out.op = "failure"
           => /\ isFailure(theResult)
              /\ errorOf(theResult) = Returned(out.args.error)
              /\ errorDetailsOf(theResult) = out.args.details

C28_Witness ==
    /\ out # NoOutcome
    /\ out.op = "failure"
    /\ out.args.details # Absent
    /\ isFailure(theResult)
    /\ ~isSuccess(theResult)

\* C29: reading data on a failure and reading error on a success raise;
\* reading data on a success and error on a failure return the value held.
C29_WrongSideReadRaises ==
    /\ out # NoOutcome /\ out.op = "data"
           => /\ out.gave.raised <=> ~out.on.isSuccess
              /\ out.on.isSuccess => out.gave = Returned(out.on.data)
    /\ out # NoOutcome /\ out.op = "error"
           => /\ out.gave.raised <=> out.on.isSuccess
              /\ ~out.on.isSuccess => out.gave = Returned(out.on.error[1])

C29_Witness ==
    /\ out # NoOutcome
    /\ out.op = "data"
    /\ ~out.on.isSuccess
    /\ out.gave.raised

\* the Result is a failure with the message and the details of the other
SameFailure(r, other) ==
    /\ ~r.isSuccess
    /\ r.error = other.error
    /\ r.errorDetails = other.errorDetails

\* C30: map and flatMap on a failure give a failure with the same message
\* and details and call nothing; on a success flatMap gives exactly
\* fn(payload) and map gives success(fn(payload)) for an fn that returns;
\* unwrapOr gives the payload of a success and the default of a failure;
\* match calls exactly one handler, the one of the Result's side.
C30_MapFlatMapPropagate ==
    out # NoOutcome =>
        /\ (out.op \in {"map", "flatMap"} /\ ~out.on.isSuccess)
               => /\ ~out.gave.raised
                  /\ SameFailure(out.gave.value, out.on)
                  /\ out.called = <<>>
        /\ (out.op = "flatMap" /\ out.on.isSuccess)
               => /\ out.gave = ApplyFlat(out.args.fn, out.on.data)
                  /\ out.called = <<Call(out.args.fn, out.on.data)>>
        /\ (out.op = "map" /\ out.on.isSuccess
                /\ ~ApplyMap(out.args.fn, out.on.data).raised)
               => out.gave = Returned(Success(ApplyMap(out.args.fn, out.on.data).value))
        /\ out.op = "unwrapOr"
               => out.gave = Returned(IF out.on.isSuccess
                                      THEN out.on.data
                                      ELSE out.args.defaultValue)
        /\ out.op = "match"
               => /\ Len(out.called) = 1
                  /\ out.called[1].fn
                         = IF out.on.isSuccess THEN "onSuccess" ELSE "onFailure"

C30_Witness ==
    /\ out # NoOutcome
    /\ out.op = "map"
    /\ ~out.on.isSuccess
    /\ out.on.errorDetails # Absent
    /\ SameFailure(theResult, out.on)
    /\ out.called = <<>>

\* handler p is called with a refresh token that refreshToken has answered
\* with success before, the token has not expired, and the store answers
\* with a record that may log in
RefreshAgain(p) ==
    /\ pc[p] = "idle" /\ pc'[p] = "done"
    /\ op'[p] = "refresh"
    /\ req'[p] # NoRequest
    /\ req'[p].token \in accepted
    /\ Now < req'[p].token.payload.exp
    /\ found'[p] # Absent
    /\ canLogin(found'[p])

\* C31: refresh tokens are not revoked by use: a refresh token that a
\* refreshToken call has already answered with a fresh pair is accepted
\* again by every later call, until it expires and while the user stays
\* eligible.
C31_RefreshTokenNotRevokedByUse ==
    [][\A p \in Procs : RefreshAgain(p) => resp'[p].isSuccess]_vars

C31_Witness ==
    \E p \in Procs :
        /\ logins = 0
        /\ held # NoTokens
        /\ held.from = "refresh"
        /\ RefreshDone(p)
        /\ req[p].token \in EarlierRefreshTokens
        /\ resp[p].isSuccess
        /\ resp[p].data.refreshToken # req[p].token

\* handler p is called with a login whose lookup finds no record, or a record
\* that is locked, inactive or unverified
LoginMeetsNoEligibleRecord(p) ==
    /\ pc[p] = "idle" /\ pc'[p] # "idle"
    /\ op'[p] = "login"
    /\ req'[p] # NoRequest
    /\ \/ branch'[p] = "not_found"
       \/ found'[p] # Absent /\ ~Eligible(found'[p])

\* C32: a login rejected because no record exists or because the account is
\* locked, inactive or unverified ends there as a failure and changes
\* nothing: the stored records, with their counters, versions and audit
\* logs, stay as they are and update is not called.
C32_RejectedLoginChangesNothing ==
    [][\A p \in Procs :
          LoginMeetsNoEligibleRecord(p)
              => /\ pc'[p] = "done"
                 /\ ~resp'[p].isSuccess
                 /\ users' = users
                 /\ wrote'[p] = "none"]_vars

C32_Witness ==
    \E p \in Procs :
        /\ LoginDone(p)
        /\ Located(p)
        /\ found[p].failedLoginAttempts >= LockThreshold
        /\ ~resp[p].isSuccess
        /\ wrote[p] = "none"
        /\ users[found[p].id] = found[p]


\* the login of handler p compares a wrong password against the hash of the
\* record it read
ComparesWrongPassword(p) ==
    /\ pc[p] = "login_verify" /\ pc'[p] = "done"
    /\ ~BcryptCompare(req[p].password, user[p].passwordHash)

\* C33: while the store works, a wrong password is compared against the hash
\* of an account only while fewer than 5 wrong-password logins to it have
\* completed since its last successful login or unlock, so that no more than
\* 5 are compared in between, however the login calls overlap.
C33_LockoutBoundsGuessing ==
    [][\A p \in Procs :
          (ComparesWrongPassword(p) /\ faults' = 0)
          => attempts[user[p].id] < LockThreshold]_vars

\* a call of one of the five operations that validateReady turned away
NotReadyCall(p) ==
    /\ pc[p] = "done"
    /\ op[p] \in {"login", "register", "refresh", "verify", "change"}
    /\ branch[p] = "not_ready"

\* the store was not asked for anything on behalf of the call
StoreUntouched(p) ==
    /\ found[p] = Absent
    /\ user[p] = Absent
    /\ wrote[p] = "none"

\* C34: a call of login, register, refreshToken, verifyToken or
\* changePassword on a service that is not ready ends by returning a failure
\* Result, not by raising, and does not touch the store.
C34_NotReadyIsAFailureResult ==
    \A p \in Procs :
        NotReadyCall(p) => /\ ~resp[p].thrown
                           /\ ~resp[p].isSuccess
                           /\ StoreUntouched(p)

\* the half of C34 the code keeps: a call turned away asked the store nothing
NotReadyLeavesTheStore ==
    \A p \in Procs : NotReadyCall(p) => ~resp[p].isSuccess /\ StoreUntouched(p)

\* initialize() has run to its end on a service whose shutdown() completed
InitializedAfterShutdown ==
    /\ isShuttingDown /\ ~isInitialized
    /\ isInitialized'

\* C35: a service that was shut down comes back: when initialize() succeeds
\* after shutdown() has completed, the service is ready again.
C35_ShutdownServiceComesBack ==
    [][InitializedAfterShutdown => isReady']_vars

\* C36: on a service no shutdown() was called on, doInitialize runs at most
\* once, however many initialize() calls are made and however they overlap;
\* and doShutdown runs at most once for any number of shutdown() calls.
C36_LifecycleRunsOnce ==
    /\ ~isShuttingDown => doInitializeRuns <= 1
    /\ doShutdownRuns <= 1

\* the half of C36 the code keeps: doShutdown runs at most once
ShutdownRunsOnce == doShutdownRuns <= 1

\* HEALTHY < DEGRADED < UNHEALTHY
Severity(status) ==
    IF status = "HEALTHY" THEN 0 ELSE IF status = "DEGRADED" THEN 1 ELSE 2

\* the status a check counts as: a check that throws counts as UNHEALTHY
CountsAs(behaviour) == IF behaviour = "throw" THEN "UNHEALTHY" ELSE behaviour

\* the statuses that went into a report: one per registered dependency, and
\* the service-specific one
StatusesOf(r) ==
    {CountsAs(r.probe.checks[r.probe.registered[i]]) : i \in 1..Len(r.probe.registered)}
        \cup {CountsAs(r.probe.serviceCheck)}

\* C37: the status health() reports is the worst of the statuses of all
\* registered dependency checks and of the service-specific check, a check
\* that throws counting as UNHEALTHY, in whatever order the dependencies were
\* registered; and the report has one entry per registered dependency, in
\* order, with the status its check counts as.
C37_HealthIsTheWorstStatus ==
    report # NoReport
    => /\ report.status \in StatusesOf(report)
       /\ \A status \in StatusesOf(report) : Severity(status) <= Severity(report.status)
       /\ Len(report.dependencies) = Len(report.probe.registered)
       /\ \A i \in 1..Len(report.dependencies) :
              /\ report.dependencies[i].name = report.probe.registered[i]
              /\ report.dependencies[i].status
                     = CountsAs(report.probe.checks[report.probe.registered[i]])

\* three dependencies, the first one's check throws, a later one is
\* DEGRADED and the last HEALTHY, the service itself HEALTHY: UNHEALTHY
C37_Witness ==
    /\ report # NoReport
    /\ Len(report.probe.registered) = 3
    /\ report.probe.registered[3] = "UserRepository"
    /\ report.probe.checks[report.probe.registered[1]] = "throw"
    /\ report.probe.checks[report.probe.registered[2]] = "DEGRADED"
    /\ report.probe.checks[report.probe.registered[3]] = "HEALTHY"
    /\ report.probe.serviceCheck = "HEALTHY"
    /\ report.status = "UNHEALTHY"

\* this step is a call of auditUpdate
AuditUpdateStep ==
    /\ entity # NoEntity
    /\ lastCall' # NoCall
    /\ lastCall'.method = "auditUpdate"
    /\ lastCall' # lastCall \/ entity' # entity

\* the own properties of the entity for which the updates of the call bring
\* a value that differs from the one held
Differing ==
    {key \in DOMAIN lastCall'.updates \cap DOMAIN entity :
         entity[key] # lastCall'.updates[key]}

\* the properties every audit entry moves: the log, the version, the stamp
Bookkeeping == {"auditLog", "version", "updatedAt", "updatedBy"}

\* what C38 says of one call of auditUpdate
AuditedExactly ==
    IF Differing = {}
    THEN entity' = entity
    ELSE /\ \A key \in Differing : entity'[key] = lastCall'.updates[key]
         /\ \A key \in DOMAIN entity \ (Differing \cup Bookkeeping) :
                entity'[key] = entity[key]
         /\ Len(entity'.auditLog) = Len(entity.auditLog) + 1
         /\ IsPrefix(entity.auditLog, entity'.auditLog)
         /\ LET entry == entity'.auditLog[Len(entity'.auditLog)]
            IN  /\ entry.action = "UPDATE"
                /\ entry.userId = lastCall'.userId
                /\ DOMAIN entry.changes = Differing
                /\ \A key \in Differing :
                       entry.changes[key] = [from |-> entity[key],
                                             to |-> lastCall'.updates[key]]

\* C38: a call of auditUpdate gives exactly the own properties whose new
\* value differs that value, leaves the other fields alone and appends one
\* audit entry that records exactly those properties with their old and new
\* values; a call in which no value differs appends no entry, leaves the
\* version, updatedAt and updatedBy as they were and modifies no field.
C38_AuditUpdateRecordsExactly ==
    [][AuditUpdateStep => AuditedExactly]_vars

\* C38 for the calls whose updates name neither the version nor the log
OrdinaryUpdatesRecordedExactly ==
    [][(AuditUpdateStep /\ DOMAIN lastCall'.updates \cap {"version", "auditLog"} = {})
          => AuditedExactly]_vars

\* a call that named a key the entity does not have, with a value that
\* differs for the title: one entry, for the title alone
OrdinaryUpdateSeen ==
    /\ lastCall # NoCall
    /\ lastCall.method = "auditUpdate"
    /\ DOMAIN lastCall.updates = {"title", "colour"}
    /\ entity.title = "b"
    /\ Len(entity.auditLog) = Len(created.auditLog) + 1
    /\ DOMAIN entity.auditLog[Len(entity.auditLog)].changes = {"title"}

\* C39: the user a successful register creates, whatever additionalData the
\* request carries, has the email of the request and the hash of the
\* password of the request, and the record stored has the email that was
\* checked for duplicates, the email of the request.
C39_RegisterKeepsCredentials ==
    \A p \in Procs :
        (RegisterDone(p) /\ branch[p] = "success")
        => /\ resp[p].data.email = req[p].email
           /\ resp[p].data.passwordHash = BcryptHash(req[p].password, saltRounds)
           /\ users[resp[p].data.id].email = req[p].email

\* C39 for the requests whose additionalData names no credential
PlainRegisterKeepsCredentials ==
    \A p \in Procs :
        (RegisterDone(p) /\ branch[p] = "success"
            /\ DOMAIN req[p].additionalData \cap {"email", "passwordHash"} = {})
        => /\ resp[p].data.email = req[p].email
           /\ resp[p].data.passwordHash = BcryptHash(req[p].password, saltRounds)

====
